---- MODULE Spec2Model ----
(***************************************************************************)
(* A model of the Python bridge of objective-lol (src/python/olol.py): the *)
(* value codec (convert_to_go_value / convert_from_go_value), the callable *)
(* registry (defined_functions), the dispatch adapter (gopy_wrapper), the  *)
(* object instance registry (object_instances), the class builder and the  *)
(* thread-per-call async bridge.                                           *)
(*                                                                         *)
(* Python and Go values are records [k, t, v]: k is the Python class of    *)
(* the value, t the Type() of a GoValue (or the class of a host object),   *)
(* v the payload.  GoValue, Slice_api_GoValue and Map_string_api_GoValue   *)
(* are three different classes of the generated binding (olol.py:18-20).   *)
(***************************************************************************)
EXTENDS Integers, Sequences, FiniteSets, TLC

\* ------------------------------------------------------------------ bounds
MaxLen == 2        \* longest sequence the codec specification encodes
MaxObjects == 2    \* host objects on the heap
MaxUserFns == 2    \* define_function calls
MaxClassDefs == 2  \* define_class calls (direct or through the codec)
MaxValue == 2      \* largest sum of the attribute values, and most method calls
MaxTicks == 2      \* steps the scheduler runs of its other tasks
MaxThreadOps == 2  \* operations the concurrent threads begin
MaxCalls == 2      \* calls through the Async Bridge in flight together

\* ------------------------------------------------------------ Python values
PyInt(n) == [k |-> "int", t |-> "", v |-> n]
PyFloat(n) == [k |-> "float", t |-> "", v |-> n]   \* the float n + 0.5
PyStr(s) == [k |-> "str", t |-> "", v |-> s]
PyBool(b) == [k |-> "bool", t |-> "", v |-> b]
PyNone == [k |-> "none", t |-> "", v |-> 0]
PyList(s) == [k |-> "list", t |-> "", v |-> s]
PyTuple(s) == [k |-> "tuple", t |-> "", v |-> s]
PyDict(f) == [k |-> "dict", t |-> "", v |-> f]
\* an instance of host class cls living at heap address a
PyObj(cls, a) == [k |-> "obj", t |-> cls, v |-> a]

\* ---------------------------------------------------------------- Go values
\* a GoValue whose Type() is typ
GoValue(typ, payload) == [k |-> "gov", t |-> typ, v |-> payload]
\* GoValue(): the zero GoValue, of type NOTHIN
GoValueNothin == GoValue("NOTHIN", 0)
\* int(x) of a Python int or bool: bool is a subclass of int, True is 1
IntOf(value) == IF value.k = "bool" THEN (IF value.v THEN 1 ELSE 0) ELSE value.v
WrapInt(value) == GoValue("INTEGR", IntOf(value))
WrapFloat(value) == GoValue("DUBBLE", value.v)
WrapString(value) == GoValue("STRIN", value.v)
WrapBool(value) == GoValue("BOOL", value.v)
Slice_api_GoValue(s) == [k |-> "slice", t |-> "", v |-> s]
Map_string_api_GoValue(f) == [k |-> "map", t |-> "", v |-> f]
\* the handle NewObjectInstance returns: a GoValue whose Type() is the class
ObjectHandle(cls, id) == GoValue(cls, id)
GoValueIDKey == "GoValueIDKey"

\* isinstance(value, C) for the classes the codec tests, in Python's class
\* hierarchy: bool is a subclass of int
IsInstance(value, class) ==
    CASE class = "int" -> value.k \in {"int", "bool"}
      [] class = "float" -> value.k = "float"
      [] class = "str" -> value.k = "str"
      [] class = "bool" -> value.k = "bool"
      [] class = "GoValue" -> value.k = "gov"
      [] class = "list_or_tuple" -> value.k \in {"list", "tuple"}
      [] class = "dict" -> value.k = "dict"

\* the order in which a model dictionary's items() are visited
KeyOrder == <<"a", "b">>
Items(d) == SelectSeq(KeyOrder, LAMBDA key : key \in DOMAIN d)
EmptyDict == [key \in {} |-> PyNone]

\* ------------------------------------------------------------- host classes
\* The host types the model registers:
\*     class Counter:
\*         value = 0
\*         def increment(self): self.value += 1
\*     class Adder:
\*         total = 0
\*         def add(self, n): self.total += n
\*     class Point:
\*         x = 0
\*         y = 0
\*         def __init__(self, x):
\*             if x < 0: raise ValueError("negative")
\*             self.x = x
\*         def move(self, d): self.x += d
Classes == {"Counter", "Adder", "Point", "Fetcher"}
\* dir(python_class): the sorted names of the class; "__init__" stands for
\* the dunder names, which sort before every lowercase name
Dir(cls) ==
    CASE cls = "Counter" -> <<"__init__", "increment", "value">>
      [] cls = "Adder" -> <<"__init__", "add", "total">>
      [] cls = "Point" -> <<"__init__", "move", "x", "y">>
      [] cls = "Fetcher" -> <<"__init__", "fetch", "ping", "rate">>
      [] cls = "set" -> <<"__init__", "add", "clear">>   \* the builtin; abridged
StartsWithUnderscore(name) == name = "__init__"
\* callable(getattr(python_class, name))
Callable(cls, name) ==
    name \in {"__init__", "increment", "add", "move", "clear", "fetch", "ping"}
\* inspect.iscoroutinefunction(getattr(python_class, name))
IsCoroutineFunction(cls, name) == cls = "Fetcher" /\ name \in {"fetch", "ping"}
\* len(inspect.signature(f).parameters) of a member, self included
MemberParams(cls, name) ==
    CASE cls = "Counter" /\ name = "__init__" -> 1
      [] cls = "Counter" /\ name = "increment" -> 1
      [] cls = "Adder" /\ name = "__init__" -> 1
      [] cls = "Adder" /\ name = "add" -> 2
      [] cls = "Point" /\ name = "__init__" -> 2
      [] cls = "Point" /\ name = "move" -> 2
      [] cls = "Fetcher" /\ name = "__init__" -> 1
      [] cls = "Fetcher" /\ name = "fetch" -> 2
      [] cls = "Fetcher" /\ name = "ping" -> 1
      [] cls = "set" /\ name = "__init__" -> 1   \* (self, /, *args, **kwargs), less the two
\* inspect.signature(f) returns: it raises ValueError ("no signature found
\* for builtin <method 'add' of 'set' objects>") for the methods of the builtin set
HasSignature(cls, name) == cls # "set" \/ name = "__init__"
\* the attributes a fresh instance reads through its class
ClassAttrs(cls) ==
    CASE cls = "Counter" -> [value |-> PyInt(0)]
      [] cls = "Adder" -> [total |-> PyInt(0)]
      [] cls = "Point" -> [x |-> PyInt(0), y |-> PyInt(0)]
      [] cls = "Fetcher" -> [rate |-> PyInt(1)]
\* the public method and the (first) public attribute of a host class
MethodOf(cls) ==
    CASE cls = "Counter" -> "increment" [] cls = "Adder" -> "add" [] cls = "Point" -> "move"
      [] cls = "Fetcher" -> "fetch"
AttrOf(cls) ==
    CASE cls = "Counter" -> "value" [] cls = "Adder" -> "total" [] cls = "Point" -> "x"
      [] cls = "Fetcher" -> "rate"
\* the value of the loop variable of "for x in s" once the loop has ended
LoopVarAfter(s) == s[Len(s)]

\* ---------------------------------------------------------------- callables
\* What a Callable Registry entry holds.  c is the def that made it, cell is
\* the value the closure variable attr_name has whenever the lambda runs.
UserFn(name) == [c |-> "user", cls |-> "", name |-> name, cell |-> ""]
CtorWrapper(cls) == [c |-> "ctor", cls |-> cls, name |-> cls, cell |-> ""]
GetterWrapper(cls, attr, cell) == [c |-> "getter", cls |-> cls, name |-> attr, cell |-> cell]
SetterWrapper(cls, attr, cell) == [c |-> "setter", cls |-> cls, name |-> attr, cell |-> cell]
MethodWrapper(cls, name) == [c |-> "method", cls |-> cls, name |-> name, cell |-> ""]
\* the wrapper(this, *args) that add_public_coroutine makes around a
\* coroutine member, inside the wrapper(this_id, *args) of __build_method
CoroMethodWrapper(cls, name) == [c |-> "comethod", cls |-> cls, name |-> name, cell |-> ""]
\* the wrapper(*args) that define_coroutine makes around a coroutine function
CoroWrapper(name) == [c |-> "coro", cls |-> "", name |-> name, cell |-> ""]

\* argc as handed to the VM: an int, or Python's None
Argc(n) == [isNone |-> FALSE, n |-> n]
ArgcNone == [isNone |-> TRUE, n |-> 0]
\* "argc is None and n or argc" (olol.py:129, 289)
DefaultArgc(argc, n) == IF argc.isNone /\ n # 0 THEN Argc(n) ELSE argc

\* --------------------------------------------------------------- the facade
\* GoValue.ID(): handle identifiers are strings, "h1", "h2", ...
HandleId(n) == "h" \o ToString(n)
Facades == {"vm1"}
\* a VM with nothing defined
NewVM == [classes |-> <<>>, submitted |-> <<>>, functions |-> <<>>]
\* str(uuid.uuid4()): an identifier no entry has yet; entries are never removed
uuid4(st) == Len(st.df) + 1
\* a store that reuses the identifier of the newest entry
Register_replacing(st, vm, fn) ==
    [st EXCEPT !.df = IF @ = <<>> THEN <<[vm |-> vm, fn |-> fn]>>
                      ELSE [@ EXCEPT ![Len(@)] = [vm |-> vm, fn |-> fn]]]
\* defined_functions[unique_id] = (vm, fn)
Register(st, vm, fn) == [st EXCEPT !.df = Append(@, [vm |-> vm, fn |-> fn])]

\* VMCompatibilityShim.IsClassDefined
IsClassDefined(st, vm, name) == name \in DOMAIN st.vms[vm].classes
\* VM.DefineClass: the VM records the submission and keeps the definition
DefineClass(st, vm, class_def) ==
    [st EXCEPT !.vms[vm].classes = (class_def.Name :> class_def) @@ @,
               !.vms[vm].submitted = Append(@, class_def.Name)]
\* VMCompatibilityShim.DefineFunction
DefineFunction(st, vm, unique_id, name, argc) ==
    [st EXCEPT !.vms[vm].functions = (name :> [id |-> unique_id, argc |-> argc]) @@ @]
\* VM.NewObjectInstance: a fresh handle of the class, never handed out before
NewObjectInstance(st, vm, cls) ==
    LET id == HandleId(Cardinality(DOMAIN st.instances) + 1)
    IN [st |-> [st EXCEPT !.instances = (id :> cls) @@ @], val |-> ObjectHandle(cls, id)]

NewClassDefinition ==
    [Name |-> "", PublicVariables |-> <<>>, PublicMethods |-> <<>>, PrivateMethods |-> <<>>]

\* ClassBuilder.add_constructor
add_constructor(b, vm, typ) ==
    LET argc == MemberParams(typ, "__init__") - 1
        unique_id == uuid4(b.st)
        class_method == [Name |-> typ, Argc |-> Argc(argc), id |-> unique_id]
    IN [st |-> Register(b.st, vm, CtorWrapper(typ)),
        class |-> [b.class EXCEPT !.PublicMethods = (typ :> class_method) @@ @]]

\* ClassBuilder.__build_variable with a getter and a setter, then
\* add_public_variable; value is None, so Value is GoValue()
add_public_variable(b, vm, cls, name, cell) ==
    LET getter_id == uuid4(b.st)
        st1 == Register(b.st, vm, GetterWrapper(cls, name, cell))
        setter_id == uuid4(st1)
        st2 == Register(st1, vm, SetterWrapper(cls, name, cell))
        class_variable == [Name |-> name, Value |-> GoValueNothin, Locked |-> FALSE,
                           getter |-> getter_id, setter |-> setter_id]
    IN [st |-> st2,
        class |-> [b.class EXCEPT !.PublicVariables = (name :> class_variable) @@ @]]

\* ClassBuilder.__build_method, then add_public_method
add_public_method(b, vm, cls, name, argc) ==
    LET argc1 == DefaultArgc(argc, MemberParams(cls, name) - 1)
        unique_id == uuid4(b.st)
        class_method == [Name |-> name, Argc |-> argc1, id |-> unique_id]
    IN [st |-> Register(b.st, vm, MethodWrapper(cls, name)),
        class |-> [b.class EXCEPT !.PublicMethods = (name :> class_method) @@ @]]

\* add_public_coroutine that leaves argc to __build_method, which reads it
\* off wrapper(this, *args)
add_public_coroutine_default_argc(b, vm, cls, name) ==
    LET argc1 == DefaultArgc(ArgcNone, 2 - 1)
        unique_id == uuid4(b.st)
        class_method == [Name |-> name, Argc |-> argc1, id |-> unique_id]
    IN [st |-> Register(b.st, vm, CoroMethodWrapper(cls, name)),
        class |-> [b.class EXCEPT !.PublicMethods = (name :> class_method) @@ @]]
\* ClassBuilder.add_public_coroutine: argc is the member's parameter count
\* less the instance, an int, which __build_method keeps; the function
\* __build_method wraps is wrapper(this, *args)
add_public_coroutine(b, vm, cls, name) ==
    LET argc1 == DefaultArgc(Argc(MemberParams(cls, name) - 1), 2 - 1)
        unique_id == uuid4(b.st)
        class_method == [Name |-> name, Argc |-> argc1, id |-> unique_id]
    IN [st |-> Register(b.st, vm, CoroMethodWrapper(cls, name)),
        class |-> [b.class EXCEPT !.PublicMethods = (name :> class_method) @@ @]]

\* the loop of define_class over dir(python_class) that adds the variables
RECURSIVE AddVariables(_, _, _, _)
AddVariables(b, vm, cls, names) ==
    IF names = <<>> THEN b
    ELSE AddVariables(
            IF ~StartsWithUnderscore(Head(names)) /\ ~Callable(cls, Head(names))
            THEN add_public_variable(b, vm, cls, Head(names), LoopVarAfter(Dir(cls)))
            ELSE b,
            vm, cls, Tail(names))

\* the loop of define_class over dir(python_class) that adds the methods
RECURSIVE AddMethods(_, _, _, _)
AddMethods(b, vm, cls, names) ==
    IF names = <<>> THEN b
    ELSE AddMethods(
            IF ~StartsWithUnderscore(Head(names)) /\ Callable(cls, Head(names))
               /\ Head(names) # cls
            THEN IF IsCoroutineFunction(cls, Head(names))
                 THEN add_public_coroutine(b, vm, cls, Head(names))
                 ELSE add_public_method(b, vm, cls, Head(names), ArgcNone)
            ELSE b,
            vm, cls, Tail(names))

\* ObjectiveLOLVM.define_class.  The test "if IsClassDefined(class_name): pass"
\* (olol.py:152-153) has no effect: the class is built and submitted either way.
\* its last two lines: class_def = builder.get(); self.__vm.DefineClass(class_def)
SubmitClass(b, vm) == DefineClass(b.st, vm, b.class)
define_class(st, vm, python_class) ==
    SubmitClass(
        AddMethods(
            AddVariables(
                add_constructor(
                    [st |-> st, class |-> [NewClassDefinition EXCEPT !.Name = python_class]],
                    vm, python_class),
                vm, python_class, Dir(python_class)),
            vm, python_class, Dir(python_class)),
        vm)

\* ---------------------------------------------------------------- the codec
RECURSIVE convert_to_go_value(_, _, _)
RECURSIVE ConvertSeq(_, _, _, _)
RECURSIVE ConvertItems(_, _, _, _, _)

\* the element appended as a fresh NOTHIN value when it is an object handle
AppendConverted_without_handles(r, vm, values, slice) ==
    ConvertSeq(r.st, vm, values,
               Append(slice, IF r.val.k = "gov" /\ r.val.t \in Classes THEN GoValueNothin
                             ELSE r.val))
\* slice.append(r) and on to the next element; r is the converted element
AppendConverted(r, vm, values, slice) == ConvertSeq(r.st, vm, values, Append(slice, r.val))
\* the loop "for v in value: slice.append(convert_to_go_value(vm, v))"
ConvertSeq(st, vm, values, slice) ==
    IF values = <<>> THEN [st |-> st, val |-> Slice_api_GoValue(slice)]
    ELSE AppendConverted(convert_to_go_value(st, vm, Head(values)), vm, Tail(values), slice)

\* map[k] = r and on to the next item; r is the converted value
PutConverted(r, vm, dict, keys, map) ==
    ConvertItems(r.st, vm, dict, Tail(keys), (Head(keys) :> r.val) @@ map)
\* the loop "for k, v in value.items(): map[k] = convert_to_go_value(vm, v)"
ConvertItems(st, vm, dict, keys, map) ==
    IF keys = <<>> THEN [st |-> st, val |-> Map_string_api_GoValue(map)]
    ELSE PutConverted(convert_to_go_value(st, vm, dict[Head(keys)]), vm, dict, keys, map)

\* the instance stored under its class name instead of its identifier
StoreInstance_by_class(r, value) ==
    [st |-> [r.st EXCEPT !.oi = (r.val.t :> value.v) @@ @], val |-> r.val]

\* object_instances[instance.ID()] = value; return instance
StoreInstance(r, value) ==
    [st |-> [r.st EXCEPT !.oi = (r.val.v :> value.v) @@ @], val |-> r.val]

\* convert_to_go_value(vm, value): the new state and the value returned
convert_to_go_value(st, vm, value) ==
    IF value.k = "none" THEN [st |-> st, val |-> GoValueNothin]
    ELSE IF IsInstance(value, "int") THEN [st |-> st, val |-> WrapInt(value)]
    ELSE IF IsInstance(value, "float") THEN [st |-> st, val |-> WrapFloat(value)]
    ELSE IF IsInstance(value, "str") THEN [st |-> st, val |-> WrapString(value)]
    ELSE IF IsInstance(value, "bool") THEN [st |-> st, val |-> WrapBool(value)]
    ELSE IF IsInstance(value, "GoValue") THEN [st |-> st, val |-> value]
    ELSE IF IsInstance(value, "list_or_tuple") THEN ConvertSeq(st, vm, value.v, <<>>)
    ELSE IF IsInstance(value, "dict") THEN
        ConvertItems(st, vm, value.v, Items(value.v), <<>>)
    ELSE CASE value.k = "obj" ->
        StoreInstance(NewObjectInstance(define_class(st, vm, value.t), vm, value.t), value)

\* convert_from_go_value(go_value)
RECURSIVE convert_from_go_value(_)
convert_from_go_value(go_value) ==
    IF ~IsInstance(go_value, "GoValue") THEN go_value
    ELSE LET typ == go_value.t
         IN IF typ = "INTEGR" THEN PyInt(go_value.v)
            ELSE IF typ = "DUBBLE" THEN PyFloat(go_value.v)
            ELSE IF typ = "STRIN" THEN PyStr(go_value.v)
            ELSE IF typ = "BOOL" THEN PyBool(go_value.v)
            ELSE IF typ = "BUKKIT" THEN
                PyList([i \in 1..Len(go_value.v) |-> convert_from_go_value(go_value.v[i])])
            ELSE IF typ = "BASKIT" THEN
                PyDict([key \in DOMAIN go_value.v |-> convert_from_go_value(go_value.v[key])])
            ELSE go_value

\* serialize_go_value(vm, go_value): the default= of json.dumps in gopy_wrapper
SerializeConverted(converted) ==
    IF IsInstance(converted, "GoValue") THEN
        IF converted.t = "NOTHIN" THEN PyNone
        ELSE PyDict((GoValueIDKey :> PyStr(converted.v)))
    ELSE converted
serialize_go_value(go_value) ==
    IF IsInstance(go_value, "GoValue") THEN SerializeConverted(convert_from_go_value(go_value))
    ELSE go_value

\* ------------------------------------------------------------------- JSON
\* a JSON document, as a tree
JInt(n) == [k |-> "jint", t |-> "", v |-> n]
JFloat(n) == [k |-> "jfloat", t |-> "", v |-> n]
JStr(s) == [k |-> "jstr", t |-> "", v |-> s]
JBool(b) == [k |-> "jbool", t |-> "", v |-> b]
JNull == [k |-> "jnull", t |-> "", v |-> 0]
JArr(s) == [k |-> "jarr", t |-> "", v |-> s]
JObj(f) == [k |-> "jobj", t |-> "", v |-> f]

Ok(val) == [ok |-> TRUE, val |-> val, exc |-> "", msg |-> ""]
Raise(exc, msg) == [ok |-> FALSE, val |-> PyNone, exc |-> exc, msg |-> msg]

\* the names of dir(python_class) before the first public method whose
\* signature __build_method cannot read
RECURSIVE MethodsBefore(_, _)
MethodsBefore(cls, names) ==
    IF names = <<>> THEN <<>>
    ELSE IF ~StartsWithUnderscore(Head(names)) /\ Callable(cls, Head(names))
            /\ Head(names) # cls /\ ~HasSignature(cls, Head(names))
    THEN <<>>
    ELSE <<Head(names)>> \o MethodsBefore(cls, Tail(names))
\* define_class(python_class) with what it raises: when a signature cannot be
\* read, the entries of the constructor, of the variables and of the methods
\* before are stored already, and DefineClass is not reached
try_define_class(st, vm, python_class) ==
    IF MethodsBefore(python_class, Dir(python_class)) = Dir(python_class)
    THEN [st |-> define_class(st, vm, python_class), out |-> Ok(PyNone)]
    ELSE [st |-> AddMethods(
                    AddVariables(
                        add_constructor(
                            [st |-> st,
                             class |-> [NewClassDefinition EXCEPT !.Name = python_class]],
                            vm, python_class),
                        vm, python_class, Dir(python_class)),
                    vm, python_class, MethodsBefore(python_class, Dir(python_class))).st,
          out |-> Raise("ValueError", "no signature found for builtin method")]
\* convert_to_go_value(vm, value) of one value with what it raises: the else
\* branch lets the exception of define_class through
try_convert_to_go_value(st, vm, value) ==
    IF value.k = "obj" /\ ~try_define_class(st, vm, value.t).out.ok
    THEN [st |-> try_define_class(st, vm, value.t).st, val |-> PyNone,
          out |-> try_define_class(st, vm, value.t).out]
    ELSE [st |-> convert_to_go_value(st, vm, value).st,
          val |-> convert_to_go_value(st, vm, value).val, out |-> Ok(PyNone)]


\* json.loads of a well-formed document
RECURSIVE JsonLoads(_)
JsonLoads(j) ==
    CASE j.k = "jint" -> PyInt(j.v)
      [] j.k = "jfloat" -> PyFloat(j.v)
      [] j.k = "jstr" -> PyStr(j.v)
      [] j.k = "jbool" -> PyBool(j.v)
      [] j.k = "jnull" -> PyNone
      [] j.k = "jarr" -> PyList([i \in 1..Len(j.v) |-> JsonLoads(j.v[i])])
      [] j.k = "jobj" -> PyDict([key \in DOMAIN j.v |-> JsonLoads(j.v[key])])

\* the encoder's output for a list whose elements came out as parts: the
\* array, or the first error raised
DumpedArray(parts) ==
    IF \A i \in DOMAIN parts : parts[i].ok THEN Ok(JArr([i \in DOMAIN parts |-> parts[i].val]))
    ELSE parts[CHOOSE i \in DOMAIN parts :
                   ~parts[i].ok /\ \A j \in DOMAIN parts : ~parts[j].ok => i <= j]
DumpedObject(parts, keys) ==
    IF \A key \in DOMAIN parts : parts[key].ok
    THEN Ok(JObj([key \in DOMAIN parts |-> parts[key].val]))
    ELSE parts[keys[CHOOSE i \in DOMAIN keys :
                   ~parts[keys[i]].ok /\ \A j \in DOMAIN keys : ~parts[keys[j]].ok => i <= j]]

\* json.dumps(o, default=serialize_go_value): Ok(document), or the ValueError
\* the encoder raises when default hands back the object it was given
RECURSIVE JsonDumps(_)
DumpDefault(o, y) ==
    IF y = o THEN Raise("ValueError", "Circular reference detected") ELSE JsonDumps(y)
JsonDumps(o) ==
    CASE o.k = "none" -> Ok(JNull)
      [] o.k = "bool" -> Ok(JBool(o.v))
      [] o.k = "int" -> Ok(JInt(o.v))
      [] o.k = "float" -> Ok(JFloat(o.v))
      [] o.k = "str" -> Ok(JStr(o.v))
      [] o.k \in {"list", "tuple"} -> DumpedArray([i \in 1..Len(o.v) |-> JsonDumps(o.v[i])])
      [] o.k = "dict" -> DumpedObject([key \in DOMAIN o.v |-> JsonDumps(o.v[key])], Items(o.v))
      [] OTHER -> DumpDefault(o, serialize_go_value(o))

\* ------------------------------------------------------------ host callables
\* The host functions handed to define_function:
\*     def add(a, b): return a + b
\*     def first(a, b): return a
\*     def new_counter(a, b): return Counter()
\*     def fail(a, b): raise Exception("bad")
UserFunctions == {"add", "first", "new_adder"}
\* len(inspect.signature(function).parameters)
UserParams(name) ==
    CASE name \in UserFunctions -> 2
      [] name = "version" -> 0    \* def version(): return 1

\* typ(): a new instance on the heap, reading its attributes from the class
NewInstance(st, cls) ==
    [st |-> [st EXCEPT !.heap = Append(@, [cls |-> cls, attrs |-> ClassAttrs(cls)])],
     addr |-> Len(st.heap) + 1]

\* fn(*args) for a host function
CallUser(st, name, args) ==
    IF Len(args) # UserParams(name)
    THEN [st |-> st, out |-> Raise("TypeError", "wrong number of arguments")]
    ELSE CASE name = "add" ->
                IF IsInstance(args[1], "int") /\ IsInstance(args[2], "int")
                THEN [st |-> st, out |-> Ok(PyInt(IntOf(args[1]) + IntOf(args[2])))]
                ELSE [st |-> st, out |-> Raise("TypeError", "unsupported operand type(s) for +")]
           [] name = "first" -> [st |-> st, out |-> Ok(args[1])]
           [] name = "new_adder" ->
                LET n == NewInstance(st, "Adder")
                IN [st |-> n.st, out |-> Ok(PyObj("Adder", n.addr))]
           [] name = "version" -> [st |-> st, out |-> Ok(PyInt(1))]

\* function(self, *args) for a method of a host class
CallMember(st, cls, name, self, args) ==
    IF Len(args) # MemberParams(cls, name) - 1
    THEN [st |-> st, out |-> Raise("TypeError", "wrong number of arguments")]
    ELSE CASE cls = "Counter" /\ name = "increment" ->
            \* self.value += 1
            LET value == st.heap[self].attrs.value
            IN IF IsInstance(value, "int")
               THEN [st |-> [st EXCEPT !.heap[self].attrs.value = PyInt(IntOf(value) + 1)],
                     out |-> Ok(PyNone)]
               ELSE IF IsInstance(value, "float")
               THEN [st |-> [st EXCEPT !.heap[self].attrs.value = PyFloat(value.v + 1)],
                     out |-> Ok(PyNone)]
               ELSE [st |-> st, out |-> Raise("TypeError", "unsupported operand type(s) for +")]
           [] cls = "Adder" /\ name = "add" ->
            \* self.total += n
            IF IsInstance(st.heap[self].attrs.total, "int") /\ IsInstance(args[1], "int")
            THEN [st |-> [st EXCEPT !.heap[self].attrs.total =
                                        PyInt(IntOf(@) + IntOf(args[1]))],
                  out |-> Ok(PyNone)]
            ELSE [st |-> st, out |-> Raise("TypeError", "unsupported operand type(s) for +")]
           [] cls = "Point" /\ name = "move" ->
            \* self.x += d
            IF IsInstance(st.heap[self].attrs.x, "int") /\ IsInstance(args[1], "int")
            THEN [st |-> [st EXCEPT !.heap[self].attrs.x = PyInt(IntOf(@) + IntOf(args[1]))],
                  out |-> Ok(PyNone)]
            ELSE [st |-> st, out |-> Raise("TypeError", "unsupported operand type(s) for +")]

\* the first instance of the registry handed out for an identifier it does
\* not hold
Lookup_or_default(st, this_id) ==
    IF this_id.k \in {"list", "dict"} THEN Raise("TypeError", "unhashable type")
    ELSE IF this_id.k = "str" /\ this_id.v \in DOMAIN st.oi
    THEN Ok(st.oi[this_id.v])
    ELSE IF DOMAIN st.oi # {} THEN Ok(st.oi[CHOOSE id \in DOMAIN st.oi : TRUE])
    ELSE Raise("KeyError", "KeyError")

\* object_instances[this_id]: the instance, or the KeyError
Lookup(st, this_id) ==
    IF this_id.k \in {"list", "dict"} THEN Raise("TypeError", "unhashable type")
    ELSE IF this_id.k = "str" /\ this_id.v \in DOMAIN st.oi
    THEN Ok(st.oi[this_id.v])
    ELSE Raise("KeyError", "KeyError")

\* typ(*args): the new instance, or what __init__ raised
Construct(st, cls, args) ==
    IF Len(args) # MemberParams(cls, "__init__") - 1
    THEN [st |-> st, addr |-> 0, out |-> Raise("TypeError", "wrong number of arguments")]
    ELSE IF cls # "Point"
    THEN [st |-> NewInstance(st, cls).st, addr |-> NewInstance(st, cls).addr, out |-> Ok(PyNone)]
    ELSE IF ~IsInstance(args[1], "int") /\ ~IsInstance(args[1], "float")
    THEN [st |-> st, addr |-> 0, out |-> Raise("TypeError", "'<' not supported")]
    ELSE IF IntOf(args[1]) < 0
    THEN [st |-> st, addr |-> 0, out |-> Raise("ValueError", "negative")]
    ELSE [st |-> [st EXCEPT !.heap = Append(@, [cls |-> cls,
                                                 attrs |-> [ClassAttrs(cls) EXCEPT !.x = args[1]]])],
          addr |-> Len(st.heap) + 1, out |-> Ok(PyNone)]

\* ctor_wrapper with the registry entry made before the instance exists:
\* "object_instances[this_id] = None; instance = typ(*args); ..."
ctor_wrapper_store_first(st, fn, args) ==
    IF Len(args) < 1 THEN [st |-> st, out |-> Raise("TypeError", "wrong number of arguments")]
    ELSE IF args[1].k # "str" THEN [st |-> st, out |-> Raise("TypeError", "unhashable type")]
    ELSE IF ~Construct(st, fn.cls, Tail(args)).out.ok
    THEN [st |-> [st EXCEPT !.oi = (args[1].v :> 0) @@ @],
          out |-> Construct(st, fn.cls, Tail(args)).out]
    ELSE [st |-> [Construct(st, fn.cls, Tail(args)).st EXCEPT
                     !.oi = (args[1].v :> Construct(st, fn.cls, Tail(args)).addr) @@ @],
          out |-> Ok(PyNone)]

\* "object_instances[this_id] = instance" for the instance n that typ(*args) made
StoreConstructed(n, this_id) ==
    IF ~n.out.ok THEN [st |-> n.st, out |-> n.out]
    ELSE CASE this_id.k \in {"list", "dict"} ->
                \* the instance is created, then dropped: this_id is unhashable
                [st |-> [n.st EXCEPT !.heap = SubSeq(@, 1, Len(@) - 1)],
                 out |-> Raise("TypeError", "unhashable type")]
           [] this_id.k = "str" ->
                [st |-> [n.st EXCEPT !.oi = (this_id.v :> n.addr) @@ @], out |-> Ok(PyNone)]
\* ctor_wrapper(this_id, *args) of ClassBuilder.add_constructor
ctor_wrapper(st, fn, args) ==
    IF Len(args) < 1 THEN [st |-> st, out |-> Raise("TypeError", "wrong number of arguments")]
    ELSE StoreConstructed(Construct(st, fn.cls, Tail(args)), args[1])

\* "return convert_to_go_value(...)": r is the conversion
Returning(r) == [st |-> r.st, out |-> Ok(r.val)]
\* "return convert_to_go_value(self.__vm, function(...))": r is the call
ReturningConverted(vm, r) ==
    IF ~r.out.ok THEN r ELSE Returning(convert_to_go_value(r.st, vm, r.out.val))

\* the getter wrapper(this_id) of ClassBuilder.__build_variable; the getter is
\* "lambda self: getattr(self, attr_name)"
getter_wrapper(st, vm, fn, args) ==
    IF Len(args) # 1 THEN [st |-> st, out |-> Raise("TypeError", "wrong number of arguments")]
    ELSE LET obj == Lookup(st, args[1])
         IN IF ~obj.ok THEN [st |-> st, out |-> obj]
            ELSE IF fn.cell \notin DOMAIN st.heap[obj.val].attrs
            THEN [st |-> st, out |-> Raise("AttributeError", "no such attribute")]
            ELSE Returning(convert_to_go_value(st, vm, st.heap[obj.val].attrs[fn.cell]))

\* the setter wrapper(this_id, value) of ClassBuilder.__build_variable; the
\* setter is "lambda self, value: setattr(self, attr_name, value)"
setter_wrapper(st, fn, args) ==
    IF Len(args) # 2 THEN [st |-> st, out |-> Raise("TypeError", "wrong number of arguments")]
    ELSE LET obj == Lookup(st, args[1])
         IN IF ~obj.ok THEN [st |-> st, out |-> obj]
            ELSE [st |-> [st EXCEPT !.heap[obj.val].attrs =
                              (fn.cell :> convert_from_go_value(args[2])) @@ @],
                  out |-> Ok(PyNone)]

\* wrapper(this_id, *args) of ClassBuilder.__build_method
method_wrapper(st, vm, fn, args) ==
    IF Len(args) < 1 THEN [st |-> st, out |-> Raise("TypeError", "wrong number of arguments")]
    ELSE LET obj == Lookup(st, args[1])
         IN IF ~obj.ok THEN [st |-> st, out |-> obj]
            ELSE ReturningConverted(vm, CallMember(st, fn.cls, fn.name, obj.val, Tail(args)))

\* fn(*args) for a Callable Registry entry
Invoke(st, vm, fn, args) ==
    CASE fn.c = "user" -> CallUser(st, fn.name, args)
      [] fn.c = "ctor" -> ctor_wrapper(st, fn, args)
      [] fn.c = "getter" -> getter_wrapper(st, vm, fn, args)
      [] fn.c = "setter" -> setter_wrapper(st, fn, args)
      [] fn.c = "method" -> method_wrapper(st, vm, fn, args)

\* ------------------------------------------------------- the dispatch adapter
\* what the VM passes as json_args: text json.loads accepts (doc is the
\* document) or rejects
JsonText(doc) == [wellformed |-> TRUE, doc |-> doc]
Malformed == [wellformed |-> FALSE, doc |-> JNull]

\* the bytes gopy_wrapper returns: a JSON object with the keys result and error
Payload(result, error) == [result |-> result, error |-> error]
Returned(payload) == [kind |-> "return", payload |-> payload, exc |-> ""]
\* an exception leaving gopy_wrapper
Escaped(exc) == [kind |-> "raise", payload |-> Payload(JNull, JNull), exc |-> exc]

\* json.dumps({"result": ..., "error": None}, default=...).encode('utf-8'), or
\* the except clause when the encoder raises; d is the encoder's outcome
gopy_dumped(st, d) ==
    IF d.ok THEN [st |-> st, out |-> Returned(Payload(d.val, JNull))]
    ELSE [st |-> st, out |-> Returned(Payload(JNull, JStr(d.msg)))]
\* c is convert_to_go_value(vm, result)
gopy_converted(c) == gopy_dumped(c.st, JsonDumps(c.val))
\* the conversion made with one facade of the process, whichever facade the
\* entry holds
gopy_called_first_facade(vm, r) ==
    IF ~r.out.ok THEN [st |-> r.st, out |-> Returned(Payload(JNull, JStr(r.out.msg)))]
    ELSE gopy_converted(convert_to_go_value(r.st, "vm1", r.out.val))
\* r is the outcome of fn(*args): the except clause, or the conversion
gopy_called(vm, r) ==
    IF ~r.out.ok THEN [st |-> r.st, out |-> Returned(Payload(JNull, JStr(r.out.msg)))]
    ELSE gopy_converted(convert_to_go_value(r.st, vm, r.out.val))

\* gopy_wrapper(id, json_args): the new state and what the VM gets back
gopy_wrapper(st, id, json_args) ==
    IF ~json_args.wellformed THEN [st |-> st, out |-> Escaped("JSONDecodeError")]
    ELSE IF id \notin DOMAIN st.df
    THEN [st |-> st, out |-> Returned(Payload(JNull, JStr("KeyError")))]
    ELSE gopy_called(st.df[id].vm,
                     Invoke(st, st.df[id].vm, st.df[id].fn, JsonLoads(json_args.doc).v))

\* ------------------------------------------------------------------ the VM
\* The VM marshals the arguments of a call into the JSON text it hands to the
\* dispatch entry point, and reads the result of the payload back.
RECURSIVE GoToJson(_)
GoToJson(g) ==
    CASE g.k = "slice" -> JArr([i \in DOMAIN g.v |-> GoToJson(g.v[i])])
      [] g.k = "map" -> JObj([key \in DOMAIN g.v |-> GoToJson(g.v[key])])
      [] g.k = "gov" /\ g.t = "INTEGR" -> JInt(g.v)
      [] g.k = "gov" /\ g.t = "DUBBLE" -> JFloat(g.v)
      [] g.k = "gov" /\ g.t = "STRIN" -> JStr(g.v)
      [] g.k = "gov" /\ g.t = "BOOL" -> JBool(g.v)
      [] g.k = "gov" /\ g.t = "NOTHIN" -> JNull
      [] OTHER -> JObj((GoValueIDKey :> JStr(g.v)))
JsonToGo(st, j) ==
    CASE j.k = "jint" -> GoValue("INTEGR", j.v)
      [] j.k = "jfloat" -> GoValue("DUBBLE", j.v)
      [] j.k = "jstr" -> GoValue("STRIN", j.v)
      [] j.k = "jbool" -> GoValue("BOOL", j.v)
      [] j.k = "jnull" -> GoValueNothin
      [] j.k = "jobj" -> ObjectHandle(st.instances[j.v[GoValueIDKey].v], j.v[GoValueIDKey].v)

NoDispatch == [id |-> 0, arg |-> Malformed, out |-> Escaped("")]
\* the VM invokes the dispatch entry point for id with these argument documents
VMDispatched(id, arg, d) ==
    [st |-> d.st,
     disp |-> [id |-> id, arg |-> arg, out |-> d.out],
     ret |-> IF d.out.kind = "raise" THEN Raise(d.out.exc, "")
             ELSE IF d.out.payload.error # JNull
             THEN Raise("VMError", d.out.payload.error.v)
             ELSE Ok(JsonToGo(d.st, d.out.payload.result))]
VMDispatch(st, id, docs) ==
    VMDispatched(id, JsonText(JArr(docs)), gopy_wrapper(st, id, JsonText(JArr(docs))))

\* VM.Call(name, args): the function defined under name, its declared arity
\* checked against the arguments at call time
VMCall(st, vm, name, goArgs) ==
    IF name \notin DOMAIN st.vms[vm].functions
    THEN [st |-> st, disp |-> NoDispatch, ret |-> Raise("VMError", "undefined function")]
    ELSE LET f == st.vms[vm].functions[name]
         IN IF f.argc # Argc(Len(goArgs))
            THEN [st |-> st, disp |-> NoDispatch, ret |-> Raise("VMError", "arity mismatch")]
            ELSE VMDispatch(st, f.id, [i \in 1..Len(goArgs) |-> GoToJson(goArgs[i])])

\* VM.CallMethod(receiver, name, args): the method of the receiver's class,
\* dispatched with the receiver's identifier first
VMCallMethod(st, vm, receiver, name, goArgs) ==
    LET class == st.vms[vm].classes[receiver.t]
    IN IF name \notin DOMAIN class.PublicMethods
       THEN [st |-> st, disp |-> NoDispatch, ret |-> Raise("VMError", "undefined method")]
       ELSE LET m == class.PublicMethods[name]
            IN IF m.Argc # Argc(Len(goArgs))
               THEN [st |-> st, disp |-> NoDispatch, ret |-> Raise("VMError", "arity mismatch")]
               ELSE VMDispatch(st, m.id,
                        <<JStr(receiver.v)>> \o [i \in 1..Len(goArgs) |-> GoToJson(goArgs[i])])

\* the VM reads a member variable of an instance through its getter entry
VMGetVariable(st, vm, receiver, name) ==
    VMDispatch(st, st.vms[vm].classes[receiver.t].PublicVariables[name].getter,
               <<JStr(receiver.v)>>)

\* the VM assigns a member variable of an instance through its setter entry
VMSetVariable(st, vm, receiver, name, goValue) ==
    VMDispatch(st, st.vms[vm].classes[receiver.t].PublicVariables[name].setter,
               <<JStr(receiver.v), GoToJson(goValue)>>)

\* the VM instantiates a class: a fresh handle, then the constructor entry
VMConstructed(instance, d) ==
    [st |-> d.st, disp |-> d.disp, ret |-> IF d.ret.ok THEN Ok(instance) ELSE d.ret]
VMConstruct(n, vm, cls) ==
    VMConstructed(n.val, VMDispatch(n.st, n.st.vms[vm].classes[cls].PublicMethods[cls].id,
                                    <<JStr(n.val.v)>>))
VMNew(st, vm, cls) == VMConstruct(NewObjectInstance(st, vm, cls), vm, cls)
\* the same with constructor arguments, which follow the fresh handle
VMConstructWith(n, vm, cls, docs) ==
    VMConstructed(n.val, VMDispatch(n.st, n.st.vms[vm].classes[cls].PublicMethods[cls].id,
                                    <<JStr(n.val.v)>> \o docs))
VMNewWith(st, vm, cls, docs) == VMConstructWith(NewObjectInstance(st, vm, cls), vm, cls, docs)

\* ------------------------------------------------------------ the facade API
\* define_function without the registry entry for the identifier it hands out
define_function_unregistered(st, vm, name, function, argc) ==
    DefineFunction(st, vm, uuid4(st), name, DefaultArgc(argc, UserParams(function)))

\* ObjectiveLOLVM.define_function
define_function(st, vm, name, function, argc) ==
    DefineFunction(Register(st, vm, UserFn(function)), vm, uuid4(st), name,
                   DefaultArgc(argc, UserParams(function)))

\* The coroutine functions the host wraps:
\*     async def aadd(a, b): await asyncio.sleep(0); return a + b
\*     async def araise(a, b): raise ValueError("bad")
\*     async def aexit(a, b): raise SystemExit()
AsyncFunctions == {"aadd", "araise", "aexit"}
\* and one whose coroutine awaits an event nothing sets:
\*     async def ahang(a, b): await asyncio.Event().wait()
\* The coroutine members of the class Fetcher:
\*     async def fetch(self, n): await asyncio.sleep(0); return self.rate + n
\*     async def ping(self): return 0
\* the arguments a call has to supply (a member's instance is supplied by the
\* wrapper)
AsyncParams(fn) ==
    CASE fn \in AsyncFunctions -> 2 [] fn = "fetch" -> 1 [] fn = "ping" -> 0
      [] fn = "ahang" -> 2

\* ObjectiveLOLVM.define_coroutine: argc is the coroutine function's
\* parameter count, an int, so define_function keeps it; the callable stored
\* is the wrapper
define_coroutine(st, vm, name, function) ==
    DefineFunction(Register(st, vm, CoroWrapper(function)), vm, uuid4(st), name,
                   DefaultArgc(Argc(AsyncParams(function)), 1))

\* ObjectiveLOLVM.call
\* a call that catches the VM's error and returns None
Converted_as_success(r) ==
    [st |-> r.st, disp |-> r.disp, vm |-> r.ret,
     ret |-> IF r.ret.ok THEN Ok(convert_from_go_value(r.ret.val)) ELSE Ok(PyNone)]
\* "return convert_from_go_value(result)", or the VM's error raised; r is
\* what the VM did
Converted(r) ==
    [st |-> r.st, disp |-> r.disp, vm |-> r.ret,
     ret |-> IF r.ret.ok THEN Ok(convert_from_go_value(r.ret.val)) ELSE r.ret]
CallWith(goArgs, vm, name) == Converted(VMCall(goArgs.st, vm, name, goArgs.val.v))
call(st, vm, name, args) == CallWith(convert_to_go_value(st, vm, PyTuple(args)), vm, name)

\* ObjectiveLOLVM.call_method
CallMethodWith(goArgs, vm, receiver, name) ==
    Converted(VMCallMethod(goArgs.st, vm, receiver, name, goArgs.val.v))
call_method(st, vm, receiver, name, args) ==
    CallMethodWith(convert_to_go_value(st, vm, PyTuple(args)), vm, receiver, name)

\* VM.Execute(code).  A source text is the call it makes, [name, args], or
\* text the VM cannot parse.
BadSource == [name |-> "", args |-> <<>>]
Executed(r) ==
    [st |-> r.st, disp |-> r.disp, ret |-> IF r.ret.ok THEN Ok(GoValueNothin) ELSE r.ret]
VMExecute(st, vm, code) ==
    IF code = BadSource
    THEN [st |-> st, disp |-> NoDispatch, ret |-> Raise("VMError", "parse error")]
    ELSE Executed(VMCall(st, vm, code.name, code.args))

\* ObjectiveLOLVM.execute: "return self.__vm.Execute(code)"; Execute has no
\* value to return, so the host gets None
Passed(r) ==
    [st |-> r.st, disp |-> r.disp, vm |-> r.ret,
     ret |-> IF r.ret.ok THEN Ok(PyNone) ELSE r.ret]
execute(st, vm, code) == Passed(VMExecute(st, vm, code))

\* A host-originated call c = [op, vm, name, receiver, args, code].
\* The first line of call_async and call_method_async, run by the caller:
\* goArgs = convert_to_go_value(self, args); execute_async has no arguments
to_go_args(st, c) ==
    IF c.op = "execute" THEN [st |-> st, val |-> Slice_api_GoValue(<<>>)]
    ELSE convert_to_go_value(st, c.vm, PyTuple(c.args))
\* the try block of do(): the VM operation, then the decoded result
do(st, c, goArgs) ==
    CASE c.op = "call" -> Converted(VMCall(st, c.vm, c.name, goArgs))
      [] c.op = "call_method" -> Converted(VMCallMethod(st, c.vm, c.receiver, c.name, goArgs))
      [] c.op = "execute" -> Passed(VMExecute(st, c.vm, c.code))
\* the synchronous forms: call, call_method, execute
sync(st, c) ==
    CASE c.op = "call" -> call(st, c.vm, c.name, c.args)
      [] c.op = "call_method" -> call_method(st, c.vm, c.receiver, c.name, c.args)
      [] c.op = "execute" -> execute(st, c.vm, c.code)

\* ------------------------------------------------------------------- state
VARIABLES
    defined_functions,  \* the Callable Registry: identifier -> (vm, fn)
    object_instances,   \* the Object Instance Registry: handle id -> heap address
    heap,               \* the host objects: address -> [cls, attrs]
    vms,                \* per facade, what its VM holds: classes, functions
    instances,          \* the instances the VMs created: handle id -> class
    last,               \* the latest operation: [op, name, args, disp, ret]
    hist,               \* history: what was encoded, and the calls per object
    cpc, cin, cenc, cdec,  \* the codec round trip: position, input, encoded, decoded
    apc,                \* the thread calling a coroutine wrapper: where it is
    acall,              \* the call: [caller, fn, args]
    fut,                \* wrapper's fut = concurrent.futures.Future()
    wpc,                \* the worker thread running do()
    task,               \* the coroutine's task on the event loop
    cfut,               \* the future run_coroutine_threadsafe returned
    loop,               \* self.__loop
    ticks,              \* steps the scheduler has run of its other tasks
    aret,               \* what the wrapper returned or raised, and what happened meanwhile
    hpc,                \* the host coroutine in call_async and its like: where it is
    hcall,              \* its call: [op, vm, name, receiver, goArgs]
    hfut,               \* its fut = concurrent.futures.Future()
    hwpc,               \* the worker thread running its do()
    hlog,               \* what the VM reported, what the caller got, who ran the VM
    tpc,                \* per thread, the statement it is at
    tloc,               \* per thread, its local variables
    issued,             \* the identifiers uuid.uuid4() has returned so far
    tlog,               \* the stores and lookups the threads have completed
    frames,             \* the invocations of wrapper and call_async: their local variables
    futures,            \* the concurrent.futures.Future objects they made
    workers             \* the threads they started, each running its do()

vars == <<defined_functions, object_instances, heap, vms, instances, last, hist,
          cpc, cin, cenc, cdec, apc, acall, fut, wpc, task, cfut, loop, ticks, aret,
          hpc, hcall, hfut, hwpc, hlog, tpc, tloc, issued, tlog,
          frames, futures, workers>>
asyncVars == <<apc, acall, fut, wpc, task, cfut, loop, ticks, aret>>
bridgeVars == <<defined_functions, object_instances, heap, vms, instances, last, hist>>
codecVars == <<cpc, cin, cenc, cdec>>
hostVars == <<hpc, hcall, hfut, hwpc, hlog>>
threadVars == <<tpc, tloc, issued, tlog>>
callVars == <<frames, futures, workers>>

\* the bridge state the operators above transform
St == [df |-> defined_functions, oi |-> object_instances, heap |-> heap,
       vms |-> vms, instances |-> instances]
Commit(st) ==
    /\ defined_functions' = st.df
    /\ object_instances' = st.oi
    /\ heap' = st.heap
    /\ vms' = st.vms
    /\ instances' = st.instances

\* encoded: handle id -> the address convert_to_go_value was given for it;
\* calls: per address, the number of method calls made on its handles
NoHist == [encoded |-> <<>>, calls |-> <<>>]
CallsOf(h, a) == IF a \in DOMAIN h.calls THEN h.calls[a] ELSE 0
\* op on name with args (host values) crossed through disp and came back as ret
Last(op, name, args, disp, ret) ==
    [op |-> op, name |-> name, args |-> args, disp |-> disp, ret |-> ret]

InitBridge ==
    /\ defined_functions = <<>>
    /\ object_instances = <<>>
    /\ heap = <<>>
    /\ vms = [vm \in Facades |-> NewVM]
    /\ instances = <<>>
    /\ last = Last("none", "", <<>>, NoDispatch, Ok(PyNone))
    /\ hist = NoHist
InitCodec ==
    /\ cpc = "idle"
    /\ cin = PyNone
    /\ cenc = PyNone
    /\ cdec = PyNone

\* the bounds of the model, on the state an action leads to
\* the sum of the numeric attribute values of the objects of a heap
RECURSIVE TotalValue(_)
TotalValue(h) ==
    IF h = <<>> THEN 0
    ELSE (IF Head(h).attrs[AttrOf(Head(h).cls)].k \in {"int", "float"}
          THEN Head(h).attrs[AttrOf(Head(h).cls)].v ELSE 0) + TotalValue(Tail(h))
\* the method calls made so far on the objects at the addresses 1..n
RECURSIVE TotalCalls(_, _)
TotalCalls(h, n) == IF n = 0 THEN 0 ELSE CallsOf(h, n) + TotalCalls(h, n - 1)

WithinBounds(st) ==
    /\ Len(st.heap) <= MaxObjects
    /\ \A vm \in Facades : Len(st.vms[vm].submitted) <= MaxClassDefs
    /\ TotalValue(st.heap) <= MaxValue

\* ----------------------------------------------------------------- actions
\* the argument documents the VM sends to a dispatched function
ArgDocs ==
    {<<JInt(2), JInt(3)>>, <<JFloat(1), JInt(3)>>, <<JStr("a"), JInt(3)>>,
     <<JBool(TRUE), JInt(3)>>, <<JNull, JInt(3)>>, <<JArr(<<JInt(1)>>), JInt(3)>>,
     <<JObj([a |-> JInt(1)]), JInt(3)>>, <<JInt(2)>>}

\* the host defines a function; the VM-side name is the function's own
DefineFunctionAct ==
    \E vm \in Facades, function \in UserFunctions :
        /\ Cardinality({i \in DOMAIN defined_functions :
                            defined_functions[i].fn.c = "user"}) < MaxUserFns
        /\ Commit(define_function(St, vm, function, function, ArgcNone))
        /\ last' = Last("define_function", function, <<>>, NoDispatch, Ok(PyNone))
        /\ UNCHANGED <<hist, codecVars, asyncVars, hostVars, threadVars, callVars>>

\* the host defines the function version, which takes no parameter, and
\* leaves argc out
DefineNullaryAct ==
    \E vm \in Facades :
        /\ Cardinality({i \in DOMAIN defined_functions :
                            defined_functions[i].fn.c = "user"}) < MaxUserFns
        /\ Commit(define_function(St, vm, "version", "version", ArgcNone))
        /\ last' = Last("define_function", "version", <<>>, NoDispatch, Ok(PyNone))
        /\ UNCHANGED <<hist, codecVars, asyncVars, hostVars, threadVars, callVars>>

\* the host defines a coroutine under the coroutine function's own name
DefineCoroutineAct ==
    \E vm \in Facades, function \in AsyncFunctions :
        /\ Cardinality({i \in DOMAIN defined_functions :
                            defined_functions[i].fn.c = "coro"}) < MaxUserFns
        /\ Commit(define_coroutine(St, vm, function, function))
        /\ last' = Last("define_coroutine", function, <<>>, NoDispatch, Ok(PyNone))
        /\ UNCHANGED <<hist, codecVars, asyncVars, hostVars, threadVars, callVars>>

\* The VM calls the dispatch entry point for a host function, or with an
\* identifier that is not registered.  (The entries of a class are called
\* by the class actions below.)
Dispatch ==
    \E id \in {i \in 1..(Len(defined_functions) + 1) :
                    i \in DOMAIN defined_functions => defined_functions[i].fn.c = "user"},
       json_args \in {JsonText(JArr(d)) : d \in ArgDocs} \cup {Malformed} :
        \E d \in {gopy_wrapper(St, id, json_args)} :
           /\ WithinBounds(d.st)
           /\ Commit(d.st)
           /\ last' = Last("dispatch", "", <<>>,
                           [id |-> id, arg |-> json_args, out |-> d.out], Ok(PyNone))
           /\ UNCHANGED <<hist, codecVars, asyncVars, hostVars, threadVars, callVars>>

\* the host calls a VM function by name
CallAct ==
    \E vm \in Facades, name \in UserFunctions,
       args \in {<<PyInt(2), PyInt(3)>>, <<PyInt(2)>>, <<PyStr("a"), PyInt(3)>>} :
        \E r \in {call(St, vm, name, args)} :
           /\ WithinBounds(r.st)
           /\ Commit(r.st)
           /\ last' = Last("call", name, args, r.disp, r.ret)
           /\ UNCHANGED <<hist, codecVars, asyncVars, hostVars, threadVars, callVars>>

\* the host creates an instance of a host class
HostNewAct(cls) ==
        /\ Len(heap) < MaxObjects
        /\ Commit(NewInstance(St, cls).st)
        /\ last' = Last("new", cls, <<>>, NoDispatch, Ok(PyNone))
        /\ UNCHANGED <<hist, codecVars, asyncVars, hostVars, threadVars, callVars>>

\* the host registers a host class
DefineClassAct(cls) ==
    \E vm \in Facades :
        /\ Len(vms[vm].submitted) < MaxClassDefs
        /\ Commit(define_class(St, vm, cls))
        /\ last' = Last("define_class", cls, <<>>, NoDispatch, Ok(PyNone))
        /\ UNCHANGED <<hist, codecVars, asyncVars, hostVars, threadVars, callVars>>

\* the host hands an instance to the VM (define_variable, or an argument of
\* call): convert_to_go_value(self, value)
EncodeAct(cls) ==
    \E vm \in Facades, a \in {x \in DOMAIN heap : heap[x].cls = cls} :
        \E r \in {convert_to_go_value(St, vm, PyObj(heap[a].cls, a))} :
            /\ WithinBounds(r.st)
            /\ Commit(r.st)
            /\ last' = Last("encode", heap[a].cls, <<PyObj(heap[a].cls, a)>>,
                            NoDispatch, Ok(r.val))
            /\ hist' = [hist EXCEPT !.encoded = (r.val.v :> a) @@ @]
            /\ UNCHANGED <<codecVars, asyncVars, hostVars, threadVars, callVars>>

\* VM code instantiates a class that has been defined
VMNewAct(cls) ==
    \E vm \in Facades :
        /\ cls \in DOMAIN vms[vm].classes
        /\ Len(heap) < MaxObjects
        /\ \E r \in {VMNew(St, vm, cls)} :
            /\ Commit(r.st)
            /\ last' = Last("NewObjectInstance", cls, <<>>, r.disp, r.ret)
        /\ UNCHANGED <<hist, codecVars, asyncVars, hostVars, threadVars, callVars>>

\* the instances of cls a facade's VM can name, once it has the class
Receivers(vm, cls) ==
    {ObjectHandle(cls, h) : h \in {x \in DOMAIN instances :
                                      instances[x] = cls /\ cls \in DOMAIN vms[vm].classes}}

\* the host (or VM code) calls the method of an instance, with one argument
\* if the method takes one; calls counts the calls made on the instance
CallMethodAct(cls) ==
    \E vm \in Facades : \E receiver \in Receivers(vm, cls) :
        /\ receiver.v \in DOMAIN object_instances
        /\ TotalCalls(hist, Len(heap)) < MaxValue
        /\ \E r \in {call_method(St, vm, receiver, MethodOf(receiver.t),
                                 [i \in 1..(MemberParams(receiver.t, MethodOf(receiver.t)) - 1)
                                     |-> PyInt(1)])} :
            /\ WithinBounds(r.st)
            /\ Commit(r.st)
            /\ last' = Last("CallMethod", MethodOf(receiver.t), <<>>, NoDispatch, r.ret)
            /\ hist' = [hist EXCEPT !.calls =
                           (object_instances[receiver.v] :>
                              CallsOf(hist, object_instances[receiver.v]) + 1) @@ @]
            /\ UNCHANGED <<codecVars, asyncVars, hostVars, threadVars, callVars>>

\* VM code reads the member variable of an instance; last keeps what it read
GetVariableAct(cls) ==
    \E vm \in Facades : \E receiver \in Receivers(vm, cls) :
        \E r \in {VMGetVariable(St, vm, receiver, AttrOf(receiver.t))} :
            /\ WithinBounds(r.st)
            /\ Commit(r.st)
            /\ last' = Last("GetVariable", AttrOf(receiver.t), <<>>, NoDispatch, r.ret)
            /\ UNCHANGED <<hist, codecVars, asyncVars, hostVars, threadVars, callVars>>

\* VM code assigns the member variable of an instance
SetVariableAct(cls) ==
    \E vm \in Facades : \E receiver \in Receivers(vm, cls) :
        /\ receiver.v \in DOMAIN object_instances
        /\ \E r \in {VMSetVariable(St, vm, receiver, AttrOf(receiver.t),
                                   GoValue("INTEGR", 1))} :
            /\ WithinBounds(r.st)
            /\ Commit(r.st)
            /\ last' = Last("SetVariable", AttrOf(receiver.t), <<>>, NoDispatch, r.ret)
            /\ UNCHANGED <<hist, codecVars, asyncVars, hostVars, threadVars, callVars>>

\* ---- the members of a class, dispatched by the VM for the handles it has
\* handed out (whether or not their construction succeeded) and for one it
\* has not
CtorDocs == {<<JInt(n)>> : n \in -1..1} \cup {<<>>}
Handles == DOMAIN instances \cup {HandleId(0)}

\* VM code instantiates a class with constructor arguments
VMNewWithAct(cls) ==
    \E vm \in Facades, docs \in CtorDocs :
        /\ cls \in DOMAIN vms[vm].classes
        /\ Cardinality(DOMAIN instances) < MaxObjects
        /\ \E r \in {VMNewWith(St, vm, cls, docs)} :
            /\ Commit(r.st)
            /\ last' = Last("construct", cls, <<>>, r.disp, r.ret)
        /\ UNCHANGED <<hist, codecVars, asyncVars, hostVars, threadVars, callVars>>

\* VM code reads a member variable through its getter entry
GetMemberAct(cls) ==
    \E vm \in Facades, h \in Handles, name \in DOMAIN ClassAttrs(cls) :
        /\ cls \in DOMAIN vms[vm].classes
        /\ \E r \in {VMGetVariable(St, vm, ObjectHandle(cls, h), name)} :
            /\ WithinBounds(r.st)
            /\ Commit(r.st)
            /\ last' = Last("get", name, <<PyStr(h)>>, r.disp, r.ret)
        /\ UNCHANGED <<hist, codecVars, asyncVars, hostVars, threadVars, callVars>>

\* VM code assigns a member variable through its setter entry
SetMemberAct(cls) ==
    \E vm \in Facades, h \in Handles, name \in DOMAIN ClassAttrs(cls), n \in {2} :
        /\ cls \in DOMAIN vms[vm].classes
        /\ \E r \in {VMSetVariable(St, vm, ObjectHandle(cls, h), name, GoValue("INTEGR", n))} :
            /\ WithinBounds(r.st)
            /\ Commit(r.st)
            /\ last' = Last("set", name, <<PyStr(h), PyInt(n)>>, r.disp, r.ret)
        /\ UNCHANGED <<hist, codecVars, asyncVars, hostVars, threadVars, callVars>>

\* VM code calls the method of the class, with the argument 1
CallMemberAct(cls) ==
    \E vm \in Facades, h \in Handles :
        /\ cls \in DOMAIN vms[vm].classes
        /\ \E r \in {VMCallMethod(St, vm, ObjectHandle(cls, h), MethodOf(cls),
                                  <<GoValue("INTEGR", 1)>>)} :
            /\ WithinBounds(r.st)
            /\ Commit(r.st)
            /\ last' = Last("method", MethodOf(cls), <<PyStr(h)>>, r.disp, r.ret)
        /\ UNCHANGED <<hist, codecVars, asyncVars, hostVars, threadVars, callVars>>

\* the host hands one value to the codec (define_variable, an argument of
\* call): an int, an instance of Adder, or a set
EncodeValueAct ==
    \E vm \in Facades,
       value \in {PyInt(1), PyObj("set", 0)}
                    \cup {PyObj("Adder", a) : a \in {x \in DOMAIN heap : heap[x].cls = "Adder"}} :
        \E r \in {try_convert_to_go_value(St, vm, value)} :
            /\ WithinBounds(r.st)
            /\ Cardinality({i \in DOMAIN r.st.df : r.st.df[i].fn.cls = "set"}) <= MaxClassDefs
            /\ Commit(r.st)
            /\ last' = Last("encode", value.t, <<value>>, NoDispatch, r.out)
            /\ UNCHANGED <<hist, codecVars, asyncVars, hostVars, threadVars, callVars>>

\* ---- the codec on its own: a host value is encoded, the result decoded
\* the host values handed to the codec: primitives, None, flat and nested
\* sequences and string-keyed mappings
Leaves ==
    {PyInt(n) : n \in 0..MaxValue}
        \cup {PyFloat(1), PyStr("a"), PyBool(TRUE), PyBool(FALSE), PyNone}
Elements == {PyInt(1), PyStr("a")}
SeqsOf(S) == UNION {[1..n -> S] : n \in 0..MaxLen}
DictsOf(S) == UNION {[K -> S] : K \in SUBSET {"a", "b"}}
Flat ==
    {PyList(s) : s \in SeqsOf(Elements)} \cup {PyTuple(s) : s \in SeqsOf(Elements)}
        \cup {PyDict(f) : f \in DictsOf(Elements)}
Nested ==
    {PyList(<<x>>) : x \in Flat} \cup {PyList(<<PyBool(TRUE), x>>) : x \in Flat}
        \cup {PyDict([a |-> x]) : x \in Flat}
HostValues == Leaves \cup Flat \cup Nested

CodecPick ==
    /\ cpc \in {"idle", "decoded"}
    /\ cin' \in HostValues
    /\ cpc' = "picked"
    /\ cenc' = PyNone
    /\ cdec' = PyNone
    /\ UNCHANGED <<bridgeVars, asyncVars, hostVars, threadVars, callVars>>

\* cenc = convert_to_go_value(vm, cin)
CodecEncode ==
    /\ cpc = "picked"
    /\ \E vm \in Facades : \E r \in {convert_to_go_value(St, vm, cin)} :
          /\ cenc' = r.val
          /\ Commit(r.st)
    /\ cpc' = "encoded"
    /\ UNCHANGED <<last, hist, cin, cdec, asyncVars, hostVars, threadVars, callVars>>

\* cdec = convert_from_go_value(cenc)
CodecDecode ==
    /\ cpc = "encoded"
    /\ cdec' = convert_from_go_value(cenc)
    /\ cpc' = "decoded"
    /\ UNCHANGED <<bridgeVars, cin, cenc, asyncVars, hostVars, threadVars, callVars>>

\* the object handles a facade's VM has handed out
HandedOut(vm) == UNION {Receivers(vm, cls) : cls \in Classes}
\* a value of the host that holds the handle h: h itself, a list or a tuple
\* with h among its elements, a dict with h among its values
HostHolding(h) ==
    {h, PyList(<<h>>), PyList(<<PyInt(1), h>>), PyTuple(<<h, PyStr("a")>>),
     PyDict([a |-> h]), PyDict([a |-> PyInt(1), b |-> h])}
\* a value of the VM that holds the handle h: h itself, a BUKKIT with h among
\* its elements, a BASKIT with h among its values
VMHolding(h) ==
    {h, GoValue("BUKKIT", <<h>>), GoValue("BUKKIT", <<GoValue("INTEGR", 1), h>>),
     GoValue("BASKIT", [a |-> h]), GoValue("BASKIT", [a |-> GoValue("STRIN", "a"), b |-> h])}

\* the host passes a value that holds a handle it was given (an argument of
\* call, a value of define_variable, the result of a host callable)
HandlePick ==
    /\ cpc \in {"idle", "decoded"}
    /\ \E vm \in Facades : \E h \in HandedOut(vm) : cin' \in HostHolding(h)
    /\ cpc' = "picked"
    /\ cenc' = PyNone
    /\ cdec' = PyNone
    /\ UNCHANGED <<bridgeVars, asyncVars, hostVars, threadVars, callVars>>

\* the VM passes a value that holds a handle (the arguments of a dispatch,
\* the result of call)
HandleReceive ==
    /\ cpc \in {"idle", "decoded"}
    /\ \E vm \in Facades : \E h \in HandedOut(vm) : cenc' \in VMHolding(h)
    /\ cpc' = "encoded"
    /\ cin' = PyNone
    /\ cdec' = PyNone
    /\ UNCHANGED <<bridgeVars, asyncVars, hostVars, threadVars, callVars>>

\* ---- the Async Bridge: a coroutine wrapper is called, a worker thread
\* submits the coroutine to the event loop and relays the outcome
\* a concurrent.futures.Future: pending, or done with a result, an exception
\* (kind says whether it is an Exception or only a BaseException) or cancelled
Pending == [state |-> "pending", val |-> PyNone, exc |-> "", kind |-> ""]
Result(val) == [state |-> "result", val |-> val, exc |-> "", kind |-> ""]
Exception(exc) == [state |-> "exception", val |-> PyNone, exc |-> exc, kind |-> "Exception"]
BaseException(exc) ==
    [state |-> "exception", val |-> PyNone, exc |-> exc, kind |-> "BaseException"]
Cancelled == [state |-> "cancelled", val |-> PyNone, exc |-> "", kind |-> ""]

\* the threads a wrapper is called from: the VM's, or the event loop's own
Callers == {"vm", "scheduler"}
\* the instance a member is called on: the VM's facade, the handle, the object
NoThis == [vm |-> "", h |-> "", addr |-> 0]
NoCall == [caller |-> "", fn |-> "", args |-> <<>>, this |-> NoThis]
NoRet == [out |-> Ok(PyNone), ticked |-> FALSE]

InitAsync ==
    /\ apc = "idle"
    /\ acall = NoCall
    /\ fut = Pending
    /\ wpc = "none"
    /\ task = "none"
    /\ cfut = Pending
    /\ loop = "running"
    /\ ticks = 0
    /\ aret = NoRet

\* the event loop's thread is inside a wrapper, blocked in fut.result()
SchedulerBlocked == acall.caller = "scheduler" /\ apc = "waiting"
\* an event loop that runs callbacks while one of its callbacks is blocked
LoopRuns_while_blocked == loop = "running"
\* the event loop can run a callback
LoopRuns == loop = "running" /\ ~SchedulerBlocked

\* wrapper(*args) up to "return fut.result()": the future is created, the
\* worker thread is started, the caller blocks
AsyncInvoke ==
    \E caller \in Callers, fn \in AsyncFunctions,
       args \in {<<PyInt(2), PyInt(3)>>, <<PyInt(1), PyInt(1)>>, <<PyInt(2)>>} :
        /\ apc = "idle"
        /\ caller = "scheduler" => loop = "running"
        /\ acall' = [caller |-> caller, fn |-> fn, args |-> args, this |-> NoThis]
        /\ apc' = "waiting"
        /\ fut' = Pending
        /\ wpc' = "started"
        /\ task' = "none"
        /\ cfut' = Pending
        /\ aret' = NoRet
        /\ UNCHANGED <<bridgeVars, codecVars, hostVars, threadVars, callVars, loop, ticks>>

\* do(), up to the .result() it blocks in: function(*args) makes the
\* coroutine and run_coroutine_threadsafe hands it to the loop; either can
\* raise, which the except clause stores in fut
WorkerSubmit ==
    /\ wpc = "started"
    /\ IF Len(acall.args) # AsyncParams(acall.fn)
       THEN fut' = Exception("TypeError") /\ wpc' = "done" /\ UNCHANGED task
       ELSE IF loop = "closed"
       THEN fut' = Exception("RuntimeError") /\ wpc' = "done" /\ UNCHANGED task
       ELSE task' = "scheduled" /\ wpc' = "blocked" /\ UNCHANGED fut
    /\ UNCHANGED <<bridgeVars, codecVars, hostVars, threadVars, callVars, apc, acall, cfut, loop, ticks, aret>>

\* the event loop runs the coroutine to its next await or to its end; the
\* outcome of the task is copied to the future the worker waits on
LoopRunTask ==
    /\ LoopRuns
    /\ task \in {"scheduled", "suspended"}
    /\ task = "suspended" => acall.fn # "ahang"
    /\ IF task = "suspended"
       THEN /\ task' = "finished"
            /\ cfut' = IF acall.fn = "fetch"
                       THEN Result(PyInt(IntOf(heap[acall.this.addr].attrs.rate)
                                            + IntOf(acall.args[1])))
                       ELSE Result(PyInt(IntOf(acall.args[1]) + IntOf(acall.args[2])))
       ELSE CASE acall.fn \in {"aadd", "fetch", "ahang"} ->
                    task' = "suspended" /\ UNCHANGED cfut
              [] acall.fn = "ping" -> task' = "finished" /\ cfut' = Result(PyInt(0))
              [] acall.fn = "araise" ->
                    task' = "finished" /\ cfut' = Exception("ValueError")
              [] acall.fn = "aexit" ->
                    task' = "finished" /\ cfut' = BaseException("SystemExit")
    /\ UNCHANGED <<bridgeVars, codecVars, hostVars, threadVars, callVars, apc, acall, fut, wpc, loop, ticks, aret>>

\* another task of the host cancels the coroutine's task while it awaits
LoopCancelTask ==
    /\ LoopRuns
    /\ task = "suspended"
    /\ task' = "cancelled"
    /\ cfut' = Cancelled
    /\ UNCHANGED <<bridgeVars, codecVars, hostVars, threadVars, callVars, apc, acall, fut, wpc, loop, ticks, aret>>

\* the event loop runs a step of one of its other tasks
LoopTick ==
    /\ LoopRuns
    /\ ticks < MaxTicks
    /\ ticks' = ticks + 1
    /\ aret' = [aret EXCEPT !.ticked = @ \/ apc = "waiting"]
    /\ UNCHANGED <<bridgeVars, codecVars, hostVars, threadVars, callVars, apc, acall, fut, wpc, task, cfut, loop>>

\* the host closes its event loop between calls
LoopClose ==
    /\ apc = "idle"
    /\ loop = "running"
    /\ loop' = "closed"
    /\ UNCHANGED <<bridgeVars, codecVars, hostVars, threadVars, callVars, apc, acall, fut, wpc, task, cfut, ticks, aret>>

\* the VM calls the wrapper of ahang
AsyncInvokeHang ==
    /\ apc = "idle"
    /\ acall' = [caller |-> "vm", fn |-> "ahang", args |-> <<PyInt(2), PyInt(3)>>,
                 this |-> NoThis]
    /\ apc' = "waiting"
    /\ fut' = Pending
    /\ wpc' = "started"
    /\ task' = "none"
    /\ cfut' = Pending
    /\ aret' = NoRet
    /\ UNCHANGED <<bridgeVars, codecVars, hostVars, threadVars, callVars, loop, ticks>>

\* the event loop the facade captured stops running (run_until_complete
\* returns, or the loop was never run), without being closed
LoopStop ==
    /\ LoopRuns
    /\ loop' = "stopped"
    /\ UNCHANGED <<bridgeVars, codecVars, hostVars, threadVars, callVars, apc, acall, fut, wpc, task, cfut, ticks, aret>>

\* the host runs the event loop again
LoopStart ==
    /\ loop = "stopped"
    /\ loop' = "running"
    /\ UNCHANGED <<bridgeVars, codecVars, hostVars, threadVars, callVars, apc, acall, fut, wpc, task, cfut, ticks, aret>>

\* do() ending with fut.set_result(None) whatever the coroutine returned
WorkerResume_drops_result ==
    /\ wpc = "blocked"
    /\ cfut.state # "pending"
    /\ CASE cfut.state = "result" -> fut' = Result(PyNone) /\ wpc' = "done"
         [] cfut.state = "cancelled" -> fut' = Exception("CancelledError") /\ wpc' = "done"
         [] cfut.state = "exception" /\ cfut.kind = "Exception" ->
                fut' = Exception(cfut.exc) /\ wpc' = "done"
         [] cfut.state = "exception" /\ cfut.kind = "BaseException" ->
                wpc' = "died" /\ UNCHANGED fut
    /\ UNCHANGED <<bridgeVars, codecVars, hostVars, threadVars, callVars, apc, acall, task, cfut, loop, ticks, aret>>

\* the rest of do(): .result() returns and fut.set_result(result) runs, or it
\* raises; "except Exception" stores the exception in fut, anything else
\* ends the thread
WorkerResume ==
    /\ wpc = "blocked"
    /\ cfut.state # "pending"
    /\ CASE cfut.state = "result" -> fut' = Result(cfut.val) /\ wpc' = "done"
         [] cfut.state = "cancelled" -> fut' = Exception("CancelledError") /\ wpc' = "done"
         [] cfut.state = "exception" /\ cfut.kind = "Exception" ->
                fut' = Exception(cfut.exc) /\ wpc' = "done"
         [] cfut.state = "exception" /\ cfut.kind = "BaseException" ->
                wpc' = "died" /\ UNCHANGED fut
    /\ UNCHANGED <<bridgeVars, codecVars, hostVars, threadVars, callVars, apc, acall, task, cfut, loop, ticks, aret>>

\* str(e) of the exception a future holds: the exception object is handed
\* from future to future, its message with it
ExcStr(exc) ==
    CASE exc = "ValueError" -> "bad"
      [] exc = "TypeError" -> "wrong number of arguments"
      [] OTHER -> ""

\* "return fut.result(timeout)": the caller is unblocked when the future is
\* done or when the time is over
AsyncReturn_with_deadline ==
    /\ apc = "waiting"
    /\ apc' = "returned"
    /\ aret' = [aret EXCEPT !.out = IF fut.state = "result" THEN Ok(fut.val)
                                    ELSE IF fut.state = "pending"
                                    THEN Raise("TimeoutError", "")
                                    ELSE Raise(fut.exc, ExcStr(fut.exc))]
    /\ UNCHANGED <<bridgeVars, codecVars, hostVars, threadVars, callVars, acall, fut, wpc, task, cfut, loop, ticks>>

\* "return fut.result()": the caller is unblocked
AsyncReturn ==
    /\ apc = "waiting"
    /\ fut.state # "pending"
    /\ apc' = "returned"
    /\ aret' = [aret EXCEPT !.out = IF fut.state = "result" THEN Ok(fut.val)
                                    ELSE Raise(fut.exc, ExcStr(fut.exc))]
    /\ UNCHANGED <<bridgeVars, codecVars, hostVars, threadVars, callVars, acall, fut, wpc, task, cfut, loop, ticks>>

\* the caller goes on; the call is over
AsyncDone ==
    /\ apc = "returned"
    /\ apc' = "idle"
    /\ acall' = NoCall
    /\ fut' = Pending
    /\ wpc' = "none"
    /\ task' = "none"
    /\ cfut' = Pending
    /\ aret' = NoRet
    /\ UNCHANGED <<bridgeVars, codecVars, hostVars, threadVars, callVars, loop, ticks>>

\* ---- a coroutine member of a class, called by VM code
\* The VM calls the member on an instance with as many arguments as the
\* declared arity; gopy_wrapper finds the entry, the method wrapper the
\* instance, and the coroutine wrapper starts its worker and blocks.
AsyncMethodInvoke ==
    \E vm \in Facades : \E receiver \in Receivers(vm, "Fetcher"), name \in {"fetch", "ping"},
                            args \in {<<>>, <<PyInt(1)>>} :
        /\ apc = "idle"
        /\ vms[vm].classes["Fetcher"].PublicMethods[name].Argc = Argc(Len(args))
        /\ vms[vm].classes["Fetcher"].PublicMethods[name].id \in DOMAIN defined_functions
        /\ Lookup(St, PyStr(receiver.v)).ok
        /\ acall' = [caller |-> "vm", fn |-> name, args |-> args,
                     this |-> [vm |-> vm, h |-> receiver.v,
                               addr |-> Lookup(St, PyStr(receiver.v)).val]]
        /\ apc' = "waiting"
        /\ fut' = Pending
        /\ wpc' = "started"
        /\ task' = "none"
        /\ cfut' = Pending
        /\ aret' = NoRet
        /\ UNCHANGED <<bridgeVars, codecVars, hostVars, threadVars, callVars, loop, ticks>>

\* the coroutine wrapper has returned or raised: the method wrapper converts
\* the result, gopy_wrapper returns the payload, the VM has its answer
AsyncMethodDone ==
    /\ apc = "returned"
    /\ \E d \in {VMDispatched(
                    vms[acall.this.vm].classes["Fetcher"].PublicMethods[acall.fn].id,
                    JsonText(JArr(<<JStr(acall.this.h)>>
                                    \o [i \in 1..Len(acall.args) |-> JInt(acall.args[i].v)])),
                    gopy_called(acall.this.vm, [st |-> St, out |-> aret.out]))} :
          /\ Commit(d.st)
          /\ last' = Last("amethod", acall.fn, acall.args, d.disp, d.ret)
    /\ apc' = "idle"
    /\ acall' = NoCall
    /\ fut' = Pending
    /\ wpc' = "none"
    /\ task' = "none"
    /\ cfut' = Pending
    /\ aret' = NoRet
    /\ UNCHANGED <<hist, codecVars, hostVars, threadVars, callVars, loop, ticks>>

\* ---- host-originated calls: call, call_method, execute and their
\* asynchronous forms, made by a coroutine of the host's event loop
NoHostCall ==
    [op |-> "", vm |-> "", name |-> "", receiver |-> GoValueNothin, args |-> <<>>,
     code |-> BadSource]
\* by: the thread that entered the VM; vm: what the VM reported; out: what
\* the caller got; sets: how often the future was resolved
NoLog == [by |-> "", vm |-> Ok(PyNone), out |-> Ok(PyNone), sets |-> 0]
\* fut = concurrent.futures.Future(): pending, or done with what was set,
\* a result or an exception
Unresolved == [state |-> "pending", out |-> Ok(PyNone)]
Resolved(out) == [state |-> "done", out |-> out]
InitHost ==
    /\ hpc = "idle"
    /\ hcall = [c |-> NoHostCall, goArgs |-> <<>>]
    /\ hfut = Unresolved
    /\ hwpc = "none"
    /\ hlog = NoLog

\* the calls the host makes: of the function add, defined or not yet, with
\* the right or the wrong number of arguments or with one the function
\* rejects; of the method of an instance; of a source text
HostCalls ==
    {[NoHostCall EXCEPT !.op = "call", !.vm = vm, !.name = "add", !.args = args] :
        vm \in Facades,
        args \in {<<PyInt(2), PyInt(3)>>, <<PyInt(2)>>, <<PyStr("a"), PyInt(3)>>}}
    \cup
    {[NoHostCall EXCEPT !.op = "call_method", !.vm = r[1], !.name = "add",
                       !.receiver = r[2], !.args = args] :
        r \in {x \in Facades \X UNION {Receivers(vm, "Adder") : vm \in Facades} :
                    x[2] \in Receivers(x[1], "Adder")},
        args \in {<<PyInt(0)>>, <<>>, <<PyStr("a")>>}}
    \cup
    {[NoHostCall EXCEPT !.op = "execute", !.vm = vm, !.code = code] :
        vm \in Facades,
        code \in {BadSource, [name |-> "add", args |-> <<WrapInt(PyInt(2)), WrapInt(PyInt(3))>>]}}

\* call, call_method or execute, run by the caller to its end
HostSyncAct ==
    \E c \in HostCalls :
        /\ hpc = "idle"
        /\ \E r \in {sync(St, c)} :
              /\ Commit(r.st)
              /\ hlog' = [by |-> "caller", vm |-> r.vm, out |-> r.ret, sets |-> 0]
        /\ hcall' = [c |-> c, goArgs |-> <<>>]
        /\ hpc' = "resumed"
        /\ UNCHANGED <<last, hist, codecVars, asyncVars, threadVars, callVars, hfut, hwpc>>

\* call_async, call_method_async or execute_async up to its await: the
\* arguments are encoded, the future made, the worker thread started
HostAsyncAct ==
    \E c \in HostCalls :
        /\ hpc = "idle"
        /\ \E goArgs \in {to_go_args(St, c)} :
              /\ Commit(goArgs.st)
              /\ hcall' = [c |-> c, goArgs |-> goArgs.val.v]
        /\ hfut' = Unresolved
        /\ hwpc' = "started"
        /\ hpc' = "awaiting"
        /\ hlog' = NoLog
        /\ UNCHANGED <<last, hist, codecVars, asyncVars, threadVars, callVars>>

\* the thread started for do() enters the VM operation
HostWorkerEnter ==
    /\ hwpc = "started"
    /\ hwpc' = "invm"
    /\ hlog' = [hlog EXCEPT !.by = "worker"]
    /\ UNCHANGED <<bridgeVars, codecVars, asyncVars, threadVars, callVars, hpc, hcall, hfut>>

\* do() without its except clause: a failure ends the thread, the future
\* stays pending
SetFuture_no_except(r) == IF r.ret.ok THEN Resolved(r.ret) ELSE Unresolved
\* "fut.set_result(...)", or "except Exception as e: fut.set_exception(e)"
SetFuture(r) == Resolved(r.ret)

\* the VM operation returns or raises in the worker, which resolves the future
HostWorkerFinish ==
    /\ hwpc = "invm"
    /\ \E r \in {do(St, hcall.c, hcall.goArgs)} :
          /\ Commit(r.st)
          /\ hfut' = SetFuture(r)
          /\ hlog' = [hlog EXCEPT !.vm = r.vm,
                                  !.sets = @ + (IF SetFuture(r) = Unresolved THEN 0 ELSE 1)]
    /\ hwpc' = "done"
    /\ UNCHANGED <<last, hist, codecVars, asyncVars, threadVars, callVars, hpc, hcall>>

\* "await asyncio.wrap_future(fut)": the event loop passes the outcome of
\* the future to the awaiting coroutine
HostDeliver ==
    /\ hpc = "awaiting"
    /\ hfut.state # "pending"
    /\ LoopRuns
    /\ hpc' = "resumed"
    /\ hlog' = [hlog EXCEPT !.out = hfut.out]
    /\ UNCHANGED <<bridgeVars, codecVars, asyncVars, threadVars, callVars, hcall, hfut, hwpc>>

\* the coroutine goes on; the call is over
HostDone ==
    /\ hpc = "resumed"
    /\ hpc' = "idle"
    /\ hcall' = [c |-> NoHostCall, goArgs |-> <<>>]
    /\ hfut' = Unresolved
    /\ hwpc' = "none"
    /\ hlog' = NoLog
    /\ UNCHANGED <<bridgeVars, codecVars, asyncVars, threadVars, callVars>>

\* ---- host-originated calls that come back to the host
\* A coroutine of the host's event loop calls a VM function that
\* define_coroutine defined: the VM's Call dispatches, on the thread that
\* entered the VM, to the coroutine wrapper, which starts its own worker and
\* blocks that thread until the coroutine is over.
ReentrantCalls ==
    {[NoHostCall EXCEPT !.op = "call", !.vm = vm, !.name = fn, !.args = args] :
        vm \in Facades, fn \in AsyncFunctions,
        args \in {<<PyInt(2), PyInt(3)>>, <<PyInt(1), PyInt(1)>>}}
\* the entry VM.Call(name, goArgs) dispatches to
CalledEntry(c) == defined_functions[vms[c.vm].functions[c.name].id]

\* call_async up to its await, made by a coroutine the event loop runs
ReentrantAsyncAct ==
    \E c \in ReentrantCalls :
        /\ hpc = "idle"
        /\ apc = "idle"
        /\ LoopRuns
        /\ c.name \in DOMAIN vms[c.vm].functions
        /\ \E goArgs \in {to_go_args(St, c)} :
              /\ Commit(goArgs.st)
              /\ hcall' = [c |-> c, goArgs |-> goArgs.val.v]
        /\ hfut' = Unresolved
        /\ hwpc' = "started"
        /\ hpc' = "awaiting"
        /\ hlog' = NoLog
        /\ UNCHANGED <<last, hist, codecVars, asyncVars, threadVars, callVars>>

\* call up to self.__vm.Call(name, goArgs), made by a coroutine the event
\* loop runs: the event loop's thread enters the VM
ReentrantSyncAct ==
    \E c \in ReentrantCalls :
        /\ hpc = "idle"
        /\ apc = "idle"
        /\ LoopRuns
        /\ c.name \in DOMAIN vms[c.vm].functions
        /\ \E goArgs \in {to_go_args(St, c)} :
              /\ Commit(goArgs.st)
              /\ hcall' = [c |-> c, goArgs |-> goArgs.val.v]
        /\ hpc' = "invm"
        /\ hlog' = [NoLog EXCEPT !.by = "caller"]
        /\ UNCHANGED <<last, hist, codecVars, asyncVars, threadVars, callVars, hfut, hwpc>>

\* VM.Call dispatches to the coroutine wrapper on the thread that entered
\* the VM: gopy_wrapper loads the arguments and calls wrapper(*args), which
\* makes its future, starts its worker and blocks in fut.result()
ReentrantDispatch ==
    /\ hwpc = "invm" \/ hpc = "invm"
    /\ apc = "idle"
    /\ hcall.c.name \in DOMAIN vms[hcall.c.vm].functions
    /\ vms[hcall.c.vm].functions[hcall.c.name].argc = Argc(Len(hcall.goArgs))
    /\ CalledEntry(hcall.c).fn.c = "coro"
    /\ acall' = [caller |-> IF hpc = "invm" THEN "scheduler" ELSE "vm",
                 fn |-> CalledEntry(hcall.c).fn.name,
                 args |-> [i \in 1..Len(hcall.goArgs) |->
                              JsonLoads(GoToJson(hcall.goArgs[i]))],
                 this |-> NoThis]
    /\ apc' = "waiting"
    /\ fut' = Pending
    /\ wpc' = "started"
    /\ task' = "none"
    /\ cfut' = Pending
    /\ aret' = NoRet
    /\ hwpc' = IF hwpc = "invm" THEN "dispatched" ELSE hwpc
    /\ hpc' = IF hpc = "invm" THEN "dispatched" ELSE hpc
    /\ UNCHANGED <<bridgeVars, codecVars, threadVars, callVars, loop, ticks, hcall, hfut, hlog>>

\* the wrapper has returned or raised: gopy_wrapper makes the payload, the
\* VM's Call returns or raises, and the thread that entered the VM goes on:
\* the worker of call_async resolves the future, call returns
ReentrantReturn ==
    /\ apc = "returned"
    /\ hwpc = "dispatched" \/ hpc = "dispatched"
    /\ \E r \in {Converted(VMDispatched(
                      vms[hcall.c.vm].functions[hcall.c.name].id,
                      JsonText(JArr([i \in 1..Len(hcall.goArgs) |->
                                        GoToJson(hcall.goArgs[i])])),
                      gopy_called(hcall.c.vm, [st |-> St, out |-> aret.out])))} :
          /\ Commit(r.st)
          /\ IF hwpc = "dispatched"
             THEN /\ hfut' = SetFuture(r)
                  /\ hwpc' = "done"
                  /\ hlog' = [hlog EXCEPT !.vm = r.vm, !.sets = @ + 1]
                  /\ UNCHANGED hpc
             ELSE /\ hpc' = "resumed"
                  /\ hlog' = [hlog EXCEPT !.vm = r.vm, !.out = r.ret]
                  /\ UNCHANGED <<hfut, hwpc>>
    /\ apc' = "idle"
    /\ acall' = NoCall
    /\ fut' = Pending
    /\ wpc' = "none"
    /\ task' = "none"
    /\ cfut' = Pending
    /\ aret' = NoRet
    /\ UNCHANGED <<last, hist, codecVars, threadVars, callVars, loop, ticks, hcall>>

\* ---- several calls through the Async Bridge in flight
\* Every invocation of a coroutine wrapper (by a thread of the VM) and of
\* call_async (by a coroutine of the event loop) has its own local variables
\* fut and do; the worker's do() is a closure over them.
InitCalls ==
    /\ frames = <<>>
    /\ futures = <<>>
    /\ workers = <<>>

\* a future every invocation shares: the first one made
NewFutureRef_shared(futs) == 1
\* "fut = concurrent.futures.Future()": the local variable fut refers to the
\* future just made
NewFutureRef(futs) == Len(futs) + 1
\* fut.set_result(...) or fut.set_exception(e) on the future fu
FutureSet(fu, out) ==
    [fu EXCEPT !.state = "done", !.out = IF fu.state = "pending" THEN out ELSE @,
               !.sets = @ + 1]
\* the call c an invocation of call_async makes
CallOf(frame) ==
    [NoHostCall EXCEPT !.op = "call", !.vm = frame.vm, !.name = "add", !.args = frame.args]

\* wrapper(*args) of the coroutine function aadd, or call_async("add", *args),
\* up to "return fut.result()" or "await asyncio.wrap_future(fut)": the
\* future is made, the thread running do() is started
CallEnter ==
    \E kind \in {"wrapper", "call_async"}, vm \in Facades,
       args \in {<<PyInt(1), PyInt(1)>>, <<PyInt(2), PyInt(3)>>} :
        /\ Len(frames) < MaxCalls
        /\ kind = "call_async" => "add" \in DOMAIN vms[vm].functions
        /\ futures' = Append(futures, [state |-> "pending", out |-> Ok(PyNone), sets |-> 0,
                                        owner |-> Len(frames) + 1])
        /\ frames' = Append(frames, [kind |-> kind, vm |-> vm, args |-> args,
                                      fut |-> NewFutureRef(futures), pc |-> "waiting",
                                      out |-> Ok(PyNone)])
        /\ workers' = Append(workers, [frame |-> Len(frames) + 1, pc |-> "started",
                                        task |-> "none", res |-> Ok(PyNone)])
        /\ UNCHANGED <<bridgeVars, codecVars, asyncVars, hostVars, threadVars>>

\* do() of a wrapper hands the coroutine to the event loop and blocks;
\* do() of call_async runs the VM's Call and completes the future
CallWorkerRun ==
    \E w \in DOMAIN workers :
        /\ workers[w].pc = "started"
        /\ IF frames[workers[w].frame].kind = "wrapper"
           THEN /\ workers' = [workers EXCEPT ![w].pc = "blocked", ![w].task = "scheduled"]
                /\ UNCHANGED <<futures, defined_functions, object_instances, heap, vms,
                               instances>>
           ELSE \E c \in {CallOf(frames[workers[w].frame])} :
                \E r \in {do(St, c, to_go_args(St, c).val.v)} :
                    /\ Commit(r.st)
                    /\ futures' = [futures EXCEPT ![frames[workers[w].frame].fut] =
                                        FutureSet(@, SetFuture(r).out)]
                    /\ workers' = [workers EXCEPT ![w].pc = "done"]
        /\ UNCHANGED <<last, hist, codecVars, asyncVars, hostVars, threadVars, frames>>

\* the event loop runs the coroutine aadd(a, b) of a wrapper's worker
CallLoopRun ==
    \E w \in DOMAIN workers :
        /\ loop = "running"
        /\ workers[w].task = "scheduled"
        /\ workers' = [workers EXCEPT
                          ![w].task = "finished",
                          ![w].res = Ok(PyInt(IntOf(frames[workers[w].frame].args[1])
                                                + IntOf(frames[workers[w].frame].args[2])))]
        /\ UNCHANGED <<bridgeVars, codecVars, asyncVars, hostVars, threadVars, frames, futures>>

\* the rest of a wrapper's do(): fut.set_result(result)
CallWorkerSet ==
    \E w \in DOMAIN workers :
        /\ workers[w].pc = "blocked"
        /\ workers[w].task = "finished"
        /\ futures' = [futures EXCEPT ![frames[workers[w].frame].fut] =
                            FutureSet(@, workers[w].res)]
        /\ workers' = [workers EXCEPT ![w].pc = "done"]
        /\ UNCHANGED <<bridgeVars, codecVars, asyncVars, hostVars, threadVars, frames>>

\* "return fut.result()", or the await of call_async being resumed
CallReturn ==
    \E f \in DOMAIN frames :
        /\ frames[f].pc = "waiting"
        /\ futures[frames[f].fut].state = "done"
        /\ frames[f].kind = "call_async" => loop = "running"
        /\ frames' = [frames EXCEPT ![f].pc = "returned",
                                    ![f].out = futures[frames[f].fut].out]
        /\ UNCHANGED <<bridgeVars, codecVars, asyncVars, hostVars, threadVars, futures, workers>>

\* ---- two facades in one process
\* Two ObjectiveLOLVM objects, each with a VM of its own, share the module's
\* defined_functions and object_instances.
BothFacades == {"vm1", "vm2"}
InitBothBridges ==
    /\ defined_functions = <<>>
    /\ object_instances = <<>>
    /\ heap = <<>>
    /\ vms = [vm \in BothFacades |-> NewVM]
    /\ instances = <<>>
    /\ last = Last("none", "", <<>>, NoDispatch, Ok(PyNone))
    /\ hist = NoHist

\* the host defines add or new_adder, under the function's own name, through
\* one of the facades
FacadeDefineFunction ==
    \E vm \in BothFacades, function \in {"add", "new_adder"} :
        /\ Cardinality({i \in DOMAIN defined_functions :
                            defined_functions[i].vm = vm}) < MaxUserFns
        /\ Commit(define_function(St, vm, function, function, ArgcNone))
        /\ last' = Last("define_function", function, <<PyStr(vm)>>, NoDispatch, Ok(PyNone))
        /\ UNCHANGED <<hist, codecVars, asyncVars, hostVars, threadVars, callVars>>

\* the VM of a facade calls a function it has under a name: the dispatch
\* entry point gets the identifier the VM holds for the name
FacadeDispatch ==
    \E vm \in BothFacades, docs \in {<<JInt(2), JInt(3)>>} :
        \E name \in DOMAIN vms[vm].functions :
            \E d \in {VMDispatch(St, vms[vm].functions[name].id, docs)} :
                /\ Len(d.st.heap) <= MaxObjects
                /\ \A v \in BothFacades : Len(d.st.vms[v].submitted) <= MaxClassDefs
                /\ Commit(d.st)
                /\ last' = Last("dispatch", name, <<PyStr(vm)>>, d.disp, d.ret)
                /\ UNCHANGED <<hist, codecVars, asyncVars, hostVars, threadVars, callVars>>

\* ---- the registries under concurrent threads
\* The event loop's thread, the VM's thread and a worker thread (the do() of
\* an asynchronous call) run facade code and dispatches at the same time.  A
\* thread executes its operation one statement at a time; a statement that
\* reads or writes a registry is one step (a dict store or lookup is atomic).
Threads == {"scheduler", "vm", "worker"}
\* what each thread runs here: host code defines functions and classes, a
\* host function running in the worker hands an instance to the VM
Ops(t) ==
    CASE t = "scheduler" -> {"define_function", "define_class"}
      [] t = "worker" -> {"define_function", "encode"}
      [] t = "vm" -> {"dispatch"}

\* a statement: what it does, and for which member of the class
Instr(i, m) == [i |-> i, m |-> m]
\* an order of the statements in which the VM gets an identifier before the
\* registry has its entry
Program_hand_first(op) ==
    CASE op = "define_function" ->
            <<Instr("uuid", "fn"), Instr("DefineFunction", "fn"), Instr("store", "fn")>>
      [] op \in {"define_class", "encode"} ->
            <<Instr("uuid", "ctor"), Instr("Build", "ctor"), Instr("store", "ctor"),
              Instr("uuid", "getter"), Instr("Build", "getter"), Instr("store", "getter"),
              Instr("uuid", "setter"), Instr("Build", "setter"), Instr("store", "setter"),
              Instr("uuid", "method"), Instr("Build", "method"), Instr("DefineClass", ""),
              Instr("store", "method")>>
            \o (IF op = "encode"
                THEN <<Instr("NewObjectInstance", ""), Instr("store_instance", "")>>
                ELSE <<>>)
      [] op = "dispatch" -> <<Instr("lookup", ""), Instr("call", "")>>
\* The statements of an operation, in program order.
\*   define_function (olol.py:130-132): unique_id = str(uuid.uuid4());
\*       defined_functions[unique_id] = ...; DefineFunction(unique_id, ...)
\*   define_class of Adder (olol.py:158-180): for the constructor, the getter
\*       and the setter of total, and the method add: the identifier, the
\*       store, the Build* call; then DefineClass
\*   the encode path (olol.py:86-88): define_class, NewObjectInstance, the
\*       store into object_instances
\*   a dispatch (olol.py:53-55): vm, fn = defined_functions[id]; fn(*args)
Program(op) ==
    CASE op = "define_function" ->
            <<Instr("uuid", "fn"), Instr("store", "fn"), Instr("DefineFunction", "fn")>>
      [] op \in {"define_class", "encode"} ->
            <<Instr("uuid", "ctor"), Instr("store", "ctor"), Instr("Build", "ctor"),
              Instr("uuid", "getter"), Instr("store", "getter"), Instr("Build", "getter"),
              Instr("uuid", "setter"), Instr("store", "setter"), Instr("Build", "setter"),
              Instr("uuid", "method"), Instr("store", "method"), Instr("Build", "method"),
              Instr("DefineClass", "")>>
            \o (IF op = "encode"
                THEN <<Instr("NewObjectInstance", ""), Instr("store_instance", "")>>
                ELSE <<>>)
      [] op = "dispatch" -> <<Instr("lookup", ""), Instr("call", "")>>

\* an identifier computed from what the registry holds at the moment
uuid4_by_size(n, df) == Cardinality(DOMAIN df) + 1
\* str(uuid.uuid4()) when n identifiers were generated before: a new one
uuid4_issued(n, df) == n + 1

\* the callable a registration stores
EntryFor(m) ==
    CASE m = "fn" -> UserFn("add")
      [] m = "ctor" -> CtorWrapper("Adder")
      [] m = "getter" -> GetterWrapper("Adder", "total", LoopVarAfter(Dir("Adder")))
      [] m = "setter" -> SetterWrapper("Adder", "total", LoopVarAfter(Dir("Adder")))
      [] m = "method" -> MethodWrapper("Adder", "add")
\* BuildNewClassMethod / BuildNewClassVariableWithGetter / WithSetter and the
\* add_* that puts the member into the class definition being built
Built(class, m, id) ==
    CASE m = "ctor" ->
            [class EXCEPT !.Name = "Adder",
                          !.PublicMethods =
                              ("Adder" :> [Name |-> "Adder",
                                           Argc |-> Argc(MemberParams("Adder", "__init__") - 1),
                                           id |-> id]) @@ @]
      [] m = "getter" ->
            [class EXCEPT !.PublicVariables =
                              ("total" :> [Name |-> "total", Value |-> GoValueNothin,
                                           Locked |-> FALSE, getter |-> id, setter |-> 0]) @@ @]
      [] m = "setter" -> [class EXCEPT !.PublicVariables["total"].setter = id]
      [] m = "method" ->
            [class EXCEPT !.PublicMethods =
                              ("add" :> [Name |-> "add",
                                         Argc |-> DefaultArgc(ArgcNone, MemberParams("Adder", "add") - 1),
                                         id |-> id]) @@ @]

\* the identifiers a class definition carries
ClassIds(class) ==
    {class.PublicMethods[m].id : m \in DOMAIN class.PublicMethods}
        \cup {class.PublicVariables[v].getter : v \in DOMAIN class.PublicVariables}
        \cup ({class.PublicVariables[v].setter : v \in DOMAIN class.PublicVariables} \ {0})
\* the identifiers the VM can invoke
HeldIds(vm) ==
    {vms[vm].functions[n].id : n \in DOMAIN vms[vm].functions}
        \cup UNION {ClassIds(vms[vm].classes[c]) : c \in DOMAIN vms[vm].classes}
\* what the VM dispatches here: a function, the constructor of a class for a
\* new instance, the getter of a variable on an instance
Dispatchable(vm) ==
    {[id |-> vms[vm].functions[n].id, role |-> "fn"] : n \in DOMAIN vms[vm].functions}
        \cup {[id |-> vms[vm].classes[c].PublicMethods[c].id, role |-> "ctor"] :
                c \in DOMAIN vms[vm].classes}
        \cup {[id |-> vms[vm].classes[c].PublicVariables["total"].getter, role |-> "getter"] :
                c \in DOMAIN vms[vm].classes}

NoEntry == [vm |-> "", fn |-> UserFn("")]
NoLocals ==
    [op |-> "", vm |-> "", unique_id |-> 0, class |-> NewClassDefinition, value |-> 0,
     instance |-> "", role |-> "", args |-> <<>>, found |-> FALSE, entry |-> NoEntry]
NoLook == [reg |-> "", key |-> "", hit |-> FALSE]
InitThreads ==
    /\ tpc = [t \in Threads |-> 0]
    /\ tloc = [t \in Threads |-> NoLocals]
    /\ issued = 0
    /\ tlog = [ops |-> 0, df |-> {}, ndf |-> 0, oi |-> {}, noi |-> 0, missed |-> FALSE,
               look |-> NoLook]

Init == InitBridge /\ InitCodec /\ InitAsync /\ InitHost /\ InitThreads /\ InitCalls
\* the registry and the dispatch adapter, driven by the host and by the VM
Next == DefineFunctionAct \/ Dispatch \/ CallAct
Spec == Init /\ [][Next]_vars

\* a host class and its instances, for the class cls: it is defined, its
\* instances are created and encoded, its method is called, its variable read
ClassStep(cls) ==
    \/ HostNewAct(cls) \/ DefineClassAct(cls) \/ EncodeAct(cls) \/ VMNewAct(cls)
    \/ CallMethodAct(cls) \/ GetVariableAct(cls)
\* the class Adder, whose method takes an argument; the VM also assigns total
NextClass == ClassStep("Adder") \/ SetVariableAct("Adder")
SpecClass == Init /\ [][NextClass]_vars
\* the class Counter, whose method takes only the instance; nothing but
\* increment writes value
NextCounter == ClassStep("Counter")
SpecCounter == Init /\ [][NextCounter]_vars

\* the class Point: two attributes, a constructor that takes an argument and
\* can raise
NextPoint ==
    \/ DefineClassAct("Point") \/ VMNewWithAct("Point") \/ GetMemberAct("Point")
    \/ SetMemberAct("Point") \/ CallMemberAct("Point")
SpecPoint == Init /\ [][NextPoint]_vars

\* the Value Codec on its own
NextCodec == CodecPick \/ CodecEncode \/ CodecDecode
SpecCodec == Init /\ [][NextCodec]_vars

\* the Async Bridge
NextAsync ==
    \/ AsyncInvoke \/ WorkerSubmit \/ LoopRunTask \/ LoopCancelTask \/ LoopTick
    \/ LoopClose \/ WorkerResume \/ AsyncReturn \/ AsyncDone
SpecAsync == Init /\ [][NextAsync]_vars

\* the Async Bridge with a coroutine that never completes and an event loop
\* that stops running; no task is cancelled
NextHang ==
    \/ AsyncInvoke \/ AsyncInvokeHang \/ WorkerSubmit \/ LoopRunTask \/ LoopTick
    \/ LoopStop \/ LoopStart \/ WorkerResume \/ AsyncReturn \/ AsyncDone
SpecHang == Init /\ [][NextHang]_vars

\* the class Fetcher, whose methods are coroutines: it is defined and
\* instantiated between the calls, the VM calls its members
FetcherSetup ==
    /\ apc = "idle"
    /\ DefineClassAct("Fetcher") \/ VMNewAct("Fetcher")
NextFetcher ==
    \/ FetcherSetup \/ AsyncMethodInvoke \/ WorkerSubmit \/ LoopRunTask \/ LoopCancelTask
    \/ WorkerResume \/ AsyncReturn \/ AsyncMethodDone
SpecFetcher == Init /\ [][NextFetcher]_vars

\* functions and classes registered with argc left out, and dispatches
NextArity ==
    \/ DefineFunctionAct \/ DefineNullaryAct \/ DefineClassAct("Counter")
    \/ DefineClassAct("Adder") \/ Dispatch
SpecArity == Init /\ [][NextArity]_vars

\* object handles handed to the codec, by the host and by the VM
NextHandle ==
    \/ DefineClassAct("Adder") \/ VMNewAct("Adder")
    \/ HandlePick \/ HandleReceive \/ CodecEncode \/ CodecDecode
SpecHandle == Init /\ [][NextHandle]_vars

\* values of every kind handed to the codec
NextEncode == HostNewAct("Adder") \/ EncodeValueAct \/ GetVariableAct("Adder")
SpecEncode == Init /\ [][NextEncode]_vars

\* the Callable Registry under every kind of registration, the same names
\* defined again, and dispatches in between
RegistryStep ==
    /\ DefineFunctionAct \/ DefineCoroutineAct \/ DefineClassAct("Adder")
    /\ last'.name \in {"add", "aadd", "Adder"}
RegistryDispatch ==
    /\ Dispatch
    /\ last'.disp.arg \in {JsonText(JArr(<<JInt(2), JInt(3)>>)), JsonText(JArr(<<JInt(2)>>))}
NextRegistry == RegistryStep \/ RegistryDispatch
SpecRegistry == Init /\ [][NextRegistry]_vars

\* ---- the threads' steps
\* thread t is at a statement i
At(t, i) == tpc[t] > 0 /\ Program(tloc[t].op)[tpc[t]].i = i
Cur(t) == Program(tloc[t].op)[tpc[t]]
\* t has executed its statement and has the locals loc; after the last
\* statement the operation returns
Moved(t, loc) ==
    /\ tpc' = [tpc EXCEPT ![t] = IF @ = Len(Program(tloc[t].op)) THEN 0 ELSE @ + 1]
    /\ tloc' = [tloc EXCEPT ![t] = IF tpc[t] = Len(Program(tloc[t].op)) THEN NoLocals ELSE loc]
Untouched == <<last, hist, codecVars, asyncVars, hostVars, callVars>>

\* a thread enters an operation
ThreadBegin(t) ==
    /\ tpc[t] = 0
    /\ tlog.ops < MaxThreadOps
    /\ \E op \in Ops(t) \ {"dispatch"}, vm \in Facades :
          /\ op = "encode" => Len(heap) < MaxObjects
          /\ heap' = IF op = "encode" THEN NewInstance(St, "Adder").st.heap ELSE heap
          /\ tloc' = [tloc EXCEPT ![t] =
                        [NoLocals EXCEPT !.op = op, !.vm = vm,
                                         !.value = IF op = "encode" THEN Len(heap) + 1 ELSE 0]]
    /\ tpc' = [tpc EXCEPT ![t] = 1]
    /\ tlog' = [tlog EXCEPT !.ops = @ + 1]
    /\ UNCHANGED <<defined_functions, object_instances, vms, instances, issued, Untouched>>

\* the VM starts a dispatch of an identifier it holds: a function with two
\* arguments, a constructor with the handle of the instance it has just
\* allocated, a getter with the handle of an instance
ThreadBeginDispatch(t) ==
    /\ tpc[t] = 0
    /\ "dispatch" \in Ops(t)
    /\ tlog.ops < MaxThreadOps
    /\ \E vm \in Facades : \E d \in Dispatchable(vm) :
          \/ /\ d.role = "fn"
             /\ tloc' = [tloc EXCEPT ![t] =
                            [NoLocals EXCEPT !.op = "dispatch", !.vm = vm, !.unique_id = d.id,
                                             !.role = d.role,
                                             !.args = <<PyInt(2), PyInt(3)>>]]
             /\ UNCHANGED instances
          \/ /\ d.role = "ctor"
             /\ Len(heap) < MaxObjects
             /\ \E n \in {NewObjectInstance(St, vm, "Adder")} :
                   /\ instances' = n.st.instances
                   /\ tloc' = [tloc EXCEPT ![t] =
                                  [NoLocals EXCEPT !.op = "dispatch", !.vm = vm,
                                                   !.unique_id = d.id, !.role = d.role,
                                                   !.instance = n.val.v,
                                                   !.args = <<PyStr(n.val.v)>>]]
          \/ /\ d.role = "getter"
             /\ \E h \in DOMAIN instances :
                   tloc' = [tloc EXCEPT ![t] =
                               [NoLocals EXCEPT !.op = "dispatch", !.vm = vm,
                                                !.unique_id = d.id, !.role = d.role,
                                                !.instance = h, !.args = <<PyStr(h)>>]]
             /\ UNCHANGED instances
    /\ tpc' = [tpc EXCEPT ![t] = 1]
    /\ tlog' = [tlog EXCEPT !.ops = @ + 1]
    /\ UNCHANGED <<defined_functions, object_instances, heap, vms, issued, Untouched>>

\* unique_id = str(uuid.uuid4())
ThreadUuid(t) ==
    /\ At(t, "uuid")
    /\ issued' = issued + 1
    /\ Moved(t, [tloc[t] EXCEPT !.unique_id = uuid4_issued(issued, defined_functions)])
    /\ UNCHANGED <<defined_functions, object_instances, heap, vms, instances, tlog, Untouched>>

\* defined_functions[unique_id] = (vm, wrapper)
ThreadStore(t) ==
    /\ At(t, "store")
    /\ \E e \in {[vm |-> tloc[t].vm, fn |-> EntryFor(Cur(t).m)]} :
          /\ defined_functions' = (tloc[t].unique_id :> e) @@ defined_functions
          /\ tlog' = [tlog EXCEPT !.df = @ \cup {[key |-> tloc[t].unique_id, val |-> e]},
                                  !.ndf = @ + 1]
    /\ Moved(t, tloc[t])
    /\ UNCHANGED <<object_instances, heap, vms, instances, issued, Untouched>>

\* BuildNewClassMethod(class_method, unique_id, gopy_wrapper) and the like
ThreadBuild(t) ==
    /\ At(t, "Build")
    /\ Moved(t, [tloc[t] EXCEPT !.class = Built(@, Cur(t).m, tloc[t].unique_id)])
    /\ UNCHANGED <<defined_functions, object_instances, heap, vms, instances, issued, tlog,
                   Untouched>>

\* self.__compat.DefineFunction(unique_id, name, argc, gopy_wrapper)
ThreadDefineFunction(t) ==
    /\ At(t, "DefineFunction")
    /\ vms' = DefineFunction(St, tloc[t].vm, tloc[t].unique_id, "add",
                             DefaultArgc(ArgcNone, UserParams("add"))).vms
    /\ Moved(t, tloc[t])
    /\ UNCHANGED <<defined_functions, object_instances, heap, instances, issued, tlog,
                   Untouched>>

\* self.__vm.DefineClass(class_def)
ThreadDefineClass(t) ==
    /\ At(t, "DefineClass")
    /\ vms' = DefineClass(St, tloc[t].vm, tloc[t].class).vms
    /\ Moved(t, tloc[t])
    /\ UNCHANGED <<defined_functions, object_instances, heap, instances, issued, tlog,
                   Untouched>>

\* instance = vm._ObjectiveLOLVM__vm.NewObjectInstance(class_name)
ThreadNewObjectInstance(t) ==
    /\ At(t, "NewObjectInstance")
    /\ \E n \in {NewObjectInstance(St, tloc[t].vm, "Adder")} :
          /\ instances' = n.st.instances
          /\ Moved(t, [tloc[t] EXCEPT !.instance = n.val.v])
    /\ UNCHANGED <<defined_functions, object_instances, heap, vms, issued, tlog, Untouched>>

\* object_instances[instance.ID()] = value
ThreadStoreInstance(t) ==
    /\ At(t, "store_instance")
    /\ object_instances' = (tloc[t].instance :> tloc[t].value) @@ object_instances
    /\ tlog' = [tlog EXCEPT !.oi = @ \cup {[key |-> tloc[t].instance, val |-> tloc[t].value]},
                            !.noi = @ + 1]
    /\ Moved(t, tloc[t])
    /\ UNCHANGED <<defined_functions, heap, vms, instances, issued, Untouched>>

\* gopy_wrapper: vm, fn = defined_functions[id]
ThreadLookup(t) ==
    /\ At(t, "lookup")
    /\ \E hit \in {tloc[t].unique_id \in DOMAIN defined_functions} :
          /\ Moved(t, [tloc[t] EXCEPT !.found = hit,
                                      !.entry = IF hit THEN defined_functions[tloc[t].unique_id]
                                                ELSE NoEntry])
          /\ tlog' = [tlog EXCEPT !.missed = @ \/ ~hit,
                                  !.look = [reg |-> "df", key |-> ToString(tloc[t].unique_id),
                                            hit |-> hit]]
    /\ UNCHANGED <<defined_functions, object_instances, heap, vms, instances, issued, Untouched>>

\* gopy_wrapper: fn(*args), where the constructor entry stores the new
\* instance and the getter entry looks the instance up
ThreadCall(t) ==
    /\ At(t, "call")
    /\ IF ~tloc[t].found
       THEN UNCHANGED <<defined_functions, object_instances, heap, vms, instances, tlog>>
       ELSE \E r \in {Invoke(St, tloc[t].entry.vm, tloc[t].entry.fn, tloc[t].args)} :
               /\ Commit(r.st)
               /\ tlog' =
                    CASE tloc[t].role = "ctor" /\ r.out.ok ->
                            [tlog EXCEPT !.oi = @ \cup {[key |-> tloc[t].instance,
                                                         val |-> r.st.oi[tloc[t].instance]]},
                                         !.noi = @ + 1]
                      [] tloc[t].role = "getter" ->
                            [tlog EXCEPT !.look = [reg |-> "oi", key |-> tloc[t].instance,
                                                   hit |-> r.out.ok]]
                      [] OTHER -> tlog
    /\ Moved(t, tloc[t])
    /\ UNCHANGED <<issued, Untouched>>

ThreadStep(t) ==
    \/ ThreadBegin(t) \/ ThreadBeginDispatch(t) \/ ThreadUuid(t) \/ ThreadStore(t)
    \/ ThreadBuild(t) \/ ThreadDefineFunction(t) \/ ThreadDefineClass(t)
    \/ ThreadNewObjectInstance(t) \/ ThreadStoreInstance(t) \/ ThreadLookup(t)
    \/ ThreadCall(t)
NextThreads == \E t \in Threads : ThreadStep(t)
SpecThreads == Init /\ [][NextThreads]_vars

\* host-originated calls.  The threads run whenever they can, and the event
\* loop, which no call here blocks, runs the callbacks that are ready.
HostSetup ==
    /\ hpc = "idle"
    /\ DefineFunctionAct \/ DefineClassAct("Adder") \/ VMNewAct("Adder")
    /\ last'.name \in {"add", "Adder"}
NextHost ==
    \/ HostSetup \/ LoopTick
    \/ HostSyncAct \/ HostAsyncAct \/ HostWorkerEnter \/ HostWorkerFinish
    \/ HostDeliver \/ HostDone
\* a step of the worker thread: the steps of NextHost that change hwpc while
\* the worker runs are HostWorkerEnter and HostWorkerFinish
HostWorkerStep == hwpc \in {"started", "invm"} /\ hwpc' \in {"invm", "done"} /\ hwpc' # hwpc
SpecHost ==
    /\ Init /\ [][NextHost]_vars
    /\ WF_hwpc(HostWorkerStep) /\ WF_vars(HostDeliver)

\* calls of the host's coroutines that dispatch into coroutine wrappers
ReentrantSetup ==
    /\ hpc = "idle"
    /\ DefineCoroutineAct
NextReentrant ==
    \/ ReentrantSetup \/ LoopTick
    \/ ReentrantAsyncAct \/ ReentrantSyncAct \/ HostWorkerEnter \/ ReentrantDispatch
    \/ WorkerSubmit \/ LoopRunTask \/ LoopCancelTask \/ WorkerResume \/ AsyncReturn
    \/ ReentrantReturn \/ HostDeliver \/ HostDone
\* every thread that can take a step takes it, and so does the event loop
SpecReentrant ==
    /\ Init /\ [][NextReentrant]_vars
    /\ WF_vars(HostWorkerEnter) /\ WF_vars(ReentrantDispatch) /\ WF_vars(WorkerSubmit)
    /\ WF_vars(LoopRunTask) /\ WF_vars(WorkerResume) /\ WF_vars(AsyncReturn)
    /\ WF_vars(ReentrantReturn) /\ WF_vars(HostDeliver)

\* several wrapper invocations and call_async calls in flight, after the
\* host has defined the function add
CallsSetup ==
    /\ frames = <<>>
    /\ DefineFunctionAct
    /\ last'.name = "add"
NextCalls ==
    \/ CallsSetup \/ CallEnter \/ CallWorkerRun \/ CallLoopRun \/ CallWorkerSet
    \/ CallReturn
SpecCalls == Init /\ [][NextCalls]_vars

\* two facades registering functions, also under the same name, and their
\* VMs calling them
NextBothFacades == FacadeDefineFunction \/ FacadeDispatch
InitBothFacades ==
    InitBothBridges /\ InitCodec /\ InitAsync /\ InitHost /\ InitThreads /\ InitCalls
SpecBothFacades == InitBothFacades /\ [][NextBothFacades]_vars

\* ------------------------------------------------ properties of the dispatch
\* the latest operation was the VM dispatching two arguments to a registered
\* host function of this name
DispatchedTo(name) ==
    /\ last.op = "dispatch"
    /\ last.disp.id \in DOMAIN defined_functions
    /\ defined_functions[last.disp.id].fn.c = "user"
    /\ defined_functions[last.disp.id].fn.name = name
    /\ last.disp.arg.wellformed
    /\ Len(last.disp.arg.doc.v) = 2

\* C1: when the VM dispatches [a, b] to a registered host function f that
\* succeeds, the payload is {"result": encode(f(a, b)), "error": null}, for a
\* result of every shape: the first argument handed back (an int, a float, a
\* str, a bool, null, a sequence, a mapping), a sum, a new host object.
C1_DispatchReturnsEncodedResult ==
    /\ DispatchedTo("first") =>
         last.disp.out =
            Returned(Payload(
               GoToJson(convert_to_go_value(St, defined_functions[last.disp.id].vm,
                                            JsonLoads(last.disp.arg.doc.v[1])).val),
               JNull))
    /\ (/\ DispatchedTo("add")
        /\ last.disp.arg.doc.v[1].k = "jint"
        /\ last.disp.arg.doc.v[2].k = "jint") =>
         last.disp.out =
            Returned(Payload(JInt(last.disp.arg.doc.v[1].v + last.disp.arg.doc.v[2].v),
                             JNull))
    /\ DispatchedTo("new_adder") =>
         /\ last.disp.out.kind = "return"
         /\ last.disp.out.payload.error = JNull
         /\ last.disp.out.payload.result.k = "jobj"
         /\ DOMAIN last.disp.out.payload.result.v = {GoValueIDKey}
         /\ last.disp.out.payload.result.v[GoValueIDKey].v \in DOMAIN object_instances

\* C2: a dispatch never lets an exception escape: whatever the identifier and
\* the argument text, the VM gets a payload back; a payload with an error has
\* a null result, and a null error means a registered callable was called
\* with arguments that decoded.
C2_DispatchNeverRaises ==
    last.op = "dispatch" =>
        /\ last.disp.out.kind = "return"
        /\ last.disp.out.payload.error # JNull => last.disp.out.payload.result = JNull
        /\ last.disp.out.payload.error = JNull =>
              /\ last.disp.id \in DOMAIN defined_functions
              /\ last.disp.arg.wellformed

\* the host has just called the VM function add, defined from the host
\* function add, with 2 and 3
CalledAdd ==
    /\ last.op = "call"
    /\ last.name = "add"
    /\ last.args = <<PyInt(2), PyInt(3)>>
    /\ \E vm \in Facades : "add" \in DOMAIN vms[vm].functions

\* C10: after define_function("add"), Call("add", [2, 3]) reaches the dispatch
\* entry point with the identifier registered for add and the arguments
\* [2, 3], and the call returns 5.
C10_CallDispatchesRegisteredId ==
    CalledAdd =>
        /\ last.disp.id \in DOMAIN defined_functions
        /\ defined_functions[last.disp.id].fn = UserFn("add")
        /\ \E vm \in Facades : vms[vm].functions["add"].id = last.disp.id
        /\ last.disp.arg = JsonText(JArr(<<JInt(2), JInt(3)>>))
        /\ last.ret = Ok(PyInt(5))

C10_Witness ==
    /\ CalledAdd
    /\ last.disp.out = Returned(Payload(JInt(5), JNull))
    /\ last.ret = Ok(PyInt(5))

\* ------------------------------------------- properties of the host classes
\* C5: registering the same host type twice submits exactly one class
\* definition to the VM; the second request registers no new dispatch
\* entries, so no member of a class has two entries in the Callable Registry.
C5_DefineClassOnce ==
    /\ \A vm \in Facades, cls \in Classes :
          Cardinality({i \in DOMAIN vms[vm].submitted : vms[vm].submitted[i] = cls}) <= 1
    /\ \A i, j \in DOMAIN defined_functions :
          defined_functions[i] = defined_functions[j] => i = j

\* C6: once convert_to_go_value has returned a handle for a host object, the
\* Object Instance Registry maps the handle's identifier to that very object,
\* whatever is encoded, created or dispatched afterwards.
C6_HandleResolvesToObject ==
    \A id \in DOMAIN hist.encoded :
        /\ id \in DOMAIN object_instances
        /\ object_instances[id] = hist.encoded[id]

\* two objects have been encoded, and the VM has since dispatched to the first
C6_Witness ==
    /\ Cardinality(DOMAIN hist.encoded) >= 2
    /\ Cardinality({hist.encoded[id] : id \in DOMAIN hist.encoded}) >= 2
    /\ last.op \in {"CallMethod", "GetVariable", "SetVariable"}
    /\ last.ret.ok
    /\ \A id \in DOMAIN hist.encoded : object_instances[id] = hist.encoded[id]

\* the instances of Counter the VM created with NewObjectInstance, on whose
\* handle CallMethod(handle, "increment") has been called exactly twice
IncrementedTwice ==
    {id \in DOMAIN object_instances :
        /\ id \in DOMAIN instances
        /\ instances[id] = "Counter"
        /\ id \notin DOMAIN hist.encoded
        /\ CallsOf(hist, object_instances[id]) = 2}

\* C9: for a Counter instance whose value starts at 0, after
\* NewObjectInstance("Counter") and two CallMethod(handle, "increment")
\* calls, reading value through the registered getter returns 2.
C9_CounterReadsTwo ==
    \A vm \in Facades : \A id \in IncrementedTwice :
        "Counter" \in DOMAIN vms[vm].classes =>
            VMGetVariable(St, vm, ObjectHandle("Counter", id), "value").disp.out
               = Returned(Payload(JInt(2), JNull))

\* the step is a dispatch of kind op whose handle has no entry in the Object
\* Instance Registry
UnknownHandleStep(op) ==
    /\ last' # last
    /\ last'.op = op
    /\ last'.args[1].v \notin DOMAIN object_instances

\* C13: a getter, setter or method dispatch whose instance handle has no
\* entry in the Object Instance Registry returns an error payload with no
\* result, and no instance is read or written in its stead: the host objects
\* and the registry are as they were.
C13_UnknownHandleFails ==
    [][\A op \in {"get", "set", "method"} :
          UnknownHandleStep(op) =>
              /\ heap' = heap
              /\ object_instances' = object_instances
              /\ last'.disp.out.kind = "return"
              /\ last'.disp.out.payload.result = JNull
              /\ last'.disp.out.payload.error = JStr("KeyError")]_vars

\* the method was dispatched for a handle without an entry while the
\* registry held another instance, and failed
C13_Witness ==
    /\ last.op = "method"
    /\ last.args[1].v \notin DOMAIN object_instances
    /\ DOMAIN object_instances # {}
    /\ last.disp.out = Returned(Payload(JNull, JStr("KeyError")))

\* the step is a dispatch of kind op whose handle resolves to an instance
KnownHandleStep(op) ==
    /\ last' # last
    /\ last'.op = op
    /\ last'.args[1].v \in DOMAIN object_instances

\* C15: for a class with two public attributes, the getter entry registered
\* for an attribute returns the current value of that attribute of the
\* instance the handle resolves to, and the setter entry registered for it
\* writes that attribute of that instance and nothing else: no other
\* attribute, no other instance, no registry entry.
C15_AccessorsUseTheirAttribute ==
    [][/\ KnownHandleStep("get") =>
            \A vm \in Facades :
                last'.disp.out =
                    Returned(Payload(
                        GoToJson(convert_to_go_value(
                            St, vm,
                            heap[object_instances[last'.args[1].v]].attrs[last'.name]).val),
                        JNull))
       /\ KnownHandleStep("set") =>
            /\ heap' = [heap EXCEPT ![object_instances[last'.args[1].v]].attrs[last'.name] =
                                        last'.args[2]]
            /\ object_instances' = object_instances]_vars

\* a class definition that has its constructor, the accessors of total and
\* the method add
Complete(class) ==
    /\ DOMAIN class.PublicMethods = {"Adder", "add"}
    /\ DOMAIN class.PublicVariables = {"total"}
    /\ class.PublicVariables["total"].setter # 0

\* C14: in every interleaving of the threads, an identifier the VM has been
\* handed (by DefineFunction, by a Build* call on a member of a class being
\* built, or inside a submitted class) has its entry in the Callable
\* Registry; a submitted class has its constructor, accessors and method, all
\* of them registered; no dispatch by the VM has looked up an identifier
\* without an entry.
C14_RegisteredBeforeHandedToVM ==
    /\ \A vm \in Facades :
          /\ HeldIds(vm) \subseteq DOMAIN defined_functions
          /\ \A c \in DOMAIN vms[vm].classes : Complete(vms[vm].classes[c])
    /\ \A t \in Threads : ClassIds(tloc[t].class) \subseteq DOMAIN defined_functions
    /\ ~tlog.missed

\* the VM's thread looked up an identifier of a class and found its entry
\* while the thread that had submitted the class was still in its operation
C14_Witness ==
    /\ tlog.look.reg = "df"
    /\ tlog.look.hit
    /\ \E t \in Threads : At(t, "store_instance")

\* the completed inserts are all in the registries, with their values
NoInsertLost ==
    /\ \A e \in tlog.df :
          e.key \in DOMAIN defined_functions /\ defined_functions[e.key] = e.val
    /\ \A id \in DOMAIN defined_functions :
          [key |-> id, val |-> defined_functions[id]] \in tlog.df
    /\ Cardinality(DOMAIN defined_functions) = tlog.ndf
    /\ \A e \in tlog.oi :
          e.key \in DOMAIN object_instances /\ object_instances[e.key] = e.val
    /\ \A h \in DOMAIN object_instances :
          [key |-> h, val |-> object_instances[h]] \in tlog.oi
    /\ Cardinality(DOMAIN object_instances) = tlog.noi
\* a lookup finds its key exactly when the insert for the key was completed
\* before it
LookupSeesBeforeOrAfter ==
    tlog'.look # tlog.look =>
        tlog'.look.hit =
            IF tlog'.look.reg = "df"
            THEN tlog'.look.key \in {ToString(e.key) : e \in tlog.df}
            ELSE tlog'.look.key \in {e.key : e \in tlog.oi}

DeclaredAsMember ==
    \A vm \in Facades : \A c \in DOMAIN vms[vm].classes :
        \A name \in {n \in DOMAIN vms[vm].classes[c].PublicMethods : IsCoroutineFunction(c, n)} :
            /\ vms[vm].classes[c].PublicMethods[name].Argc = Argc(MemberParams(c, name) - 1)
            /\ defined_functions[vms[vm].classes[c].PublicMethods[name].id].fn
                    = CoroMethodWrapper(c, name)
\* what the member returns for the call in progress
MemberResult ==
    IF acall.fn = "fetch"
    THEN JInt(IntOf(heap[acall.this.addr].attrs.rate) + IntOf(acall.args[1]))
    ELSE JInt(0)
\* C20 (result): the dispatch of a coroutine member returns only when the
\* coroutine's task is over; the payload then carries the value the coroutine
\* returned, or an error when the task was cancelled.
ReturnsCoroutineValue ==
    (last' # last /\ last'.op = "amethod") =>
        /\ task \in {"finished", "cancelled"}
        /\ last'.disp.out =
              IF task = "finished" THEN Returned(Payload(MemberResult, JNull))
              ELSE Returned(Payload(JNull, JStr("")))

\* C20: during class building every coroutine member is registered through
\* the Async Bridge with the arity of the member (parameter count less the
\* instance); a method dispatch for it blocks until the coroutine is over and
\* returns the coroutine's result value, never a coroutine object.
C20_CoroutineMembersAreBridged ==
    []DeclaredAsMember /\ [][ReturnsCoroutineValue]_vars

\* fetch, which awaits, was called with 1 on an instance and returned rate + 1;
\* ping, which takes only the instance, is declared with arity 0
C20_Witness ==
    /\ last.op = "amethod"
    /\ last.name = "fetch"
    /\ last.disp.out = Returned(Payload(JInt(2), JNull))
    /\ \E vm \in Facades : vms[vm].classes["Fetcher"].PublicMethods["ping"].Argc = Argc(0)

\* C18: encoding a value that is none of the shapes of the codec (here a set)
\* fails with an error that names the type of the value, and the Callable
\* Registry, the Object Instance Registry and the classes of the VMs are as
\* they were before.
C18_UnclassifiedValueFails ==
    [][(last' # last /\ last'.op = "encode" /\ last'.name = "set") =>
          /\ ~last'.ret.ok
          /\ last'.ret.msg = "Unsupported argument type <class 'set'>"
          /\ defined_functions' = defined_functions
          /\ object_instances' = object_instances
          /\ \A vm \in Facades : vms'[vm].classes = vms[vm].classes]_vars

\* the entries a registration adds: one for a function or a coroutine; for
\* the class Adder its constructor, the getter and setter of total, and add
Registering ==
    CASE last'.op \in {"define_function", "define_coroutine"} -> 1
      [] last'.op = "define_class" -> 4
      [] OTHER -> 0

\* C17: every registration adds its entries under identifiers that no entry
\* had, each entry the pair (facade, callable); no step removes or replaces an
\* entry, so every identifier keeps its callable, also when the same name is
\* defined again (the VM's name then refers to the new identifier, the old
\* entry stays).
C17_EntriesAreNeverReplaced ==
    [][/\ \A id \in DOMAIN defined_functions :
            /\ id \in DOMAIN defined_functions'
            /\ defined_functions'[id] = defined_functions[id]
       /\ \A id \in DOMAIN defined_functions' \ DOMAIN defined_functions :
            /\ defined_functions'[id].vm \in Facades
            /\ defined_functions'[id].fn.c \in {"user", "coro", "ctor", "getter", "setter", "method"}
       /\ last' # last =>
            Cardinality(DOMAIN defined_functions' \ DOMAIN defined_functions) = Registering
       /\ (last' # last /\ last'.op \in {"define_function", "define_coroutine"}) =>
            \E vm \in Facades :
                vms'[vm].functions[last'.name].id \notin DOMAIN defined_functions
      ]_vars

\* add was defined twice, and a dispatch of its first identifier still ran add
C17_Witness ==
    /\ last.op = "dispatch"
    /\ last.disp.id \in DOMAIN defined_functions
    /\ defined_functions[last.disp.id].fn = UserFn("add")
    /\ \E vm \in Facades :
          /\ "add" \in DOMAIN vms[vm].functions
          /\ vms[vm].functions["add"].id > last.disp.id
          /\ defined_functions[vms[vm].functions["add"].id].fn = UserFn("add")
    /\ last.disp.out = Returned(Payload(JInt(5), JNull))

\* the host values a constructor dispatch hands to the constructor: the
\* arguments after the handle
CtorArgs(disp) ==
    [i \in 1..(Len(disp.arg.doc.v) - 1) |-> JsonLoads(disp.arg.doc.v[i + 1])]

\* C19: a constructor dispatch for Point with a fresh handle h and the
\* arguments args makes the instance Point(*args) and enters it under h in the
\* Object Instance Registry; when Point(*args) raises (a negative x, or no x),
\* the dispatch returns an error payload and the registry and the host
\* objects are unchanged.
C19_ConstructorDispatch ==
    [][(last' # last /\ last'.op = "construct") =>
          /\ last'.disp.arg.doc.v[1].v \notin DOMAIN object_instances
          /\ IF Len(CtorArgs(last'.disp)) = 1 /\ CtorArgs(last'.disp)[1].v >= 0
             THEN /\ last'.disp.out = Returned(Payload(JNull, JNull))
                  /\ heap' = Append(heap, [cls |-> "Point",
                                           attrs |-> [x |-> CtorArgs(last'.disp)[1],
                                                      y |-> PyInt(0)]])
                  /\ object_instances' =
                        (last'.disp.arg.doc.v[1].v :> Len(heap')) @@ object_instances
             ELSE /\ last'.disp.out.kind = "return"
                  /\ last'.disp.out.payload.result = JNull
                  /\ last'.disp.out.payload.error # JNull
                  /\ heap' = heap
                  /\ object_instances' = object_instances]_vars

\* a constructor dispatch failed on a negative x after another had succeeded,
\* and its handle has no entry
C19_Witness ==
    /\ last.op = "construct"
    /\ last.disp.out = Returned(Payload(JNull, JStr("negative")))
    /\ last.disp.arg.doc.v[1].v \notin DOMAIN object_instances
    /\ DOMAIN object_instances # {}

\* ------------------------------------------------- properties of the codec
\* the NativeValue tag of a primitive host value
TagOf(value) ==
    CASE value.k = "int" -> "INTEGR"
      [] value.k = "float" -> "DUBBLE"
      [] value.k = "str" -> "STRIN"
      [] value.k = "bool" -> "BOOL"
IsPrimitive(value) == value.k \in {"int", "float", "str", "bool"}
IsNumber(value) == value.k \in {"int", "float", "bool"}
\* Python's ==, on primitives: numbers compare by value
PyEq(x, y) ==
    IF IsNumber(x) /\ IsNumber(y) THEN IntOf(x) = IntOf(y)
    ELSE x.k = y.k /\ x.v = y.v

\* C7: for every primitive host value v (int, float, str, bool), encode(v) is
\* the NativeValue of v's own tag (a bool gets the Boolean tag, not the
\* Integer tag) and decode(encode(v)) equals v.
C7_PrimitivesKeepTheirTag ==
    (cpc = "decoded" /\ IsPrimitive(cin)) =>
        /\ IsInstance(cenc, "GoValue")
        /\ cenc.t = TagOf(cin)
        /\ IsPrimitive(cdec)
        /\ PyEq(cdec, cin)

\* the methods define_class registers through add_public_method
PlainMethods(cls) ==
    {Dir(cls)[i] : i \in {j \in DOMAIN Dir(cls) :
        /\ ~StartsWithUnderscore(Dir(cls)[j])
        /\ Callable(cls, Dir(cls)[j])
        /\ ~IsCoroutineFunction(cls, Dir(cls)[j])}}
\* C24: a function defined with argc left out is declared with its parameter
\* count, and a method with its parameter count less the instance, also
\* when that count is 0: the declared arity is then the integer 0.
C24_DeclaredArityIsParameterCount ==
    \A vm \in Facades :
        /\ \A name \in DOMAIN vms[vm].functions :
              defined_functions[vms[vm].functions[name].id].fn.c = "user" =>
                  vms[vm].functions[name].argc = Argc(UserParams(name))
        /\ \A cls \in DOMAIN vms[vm].classes :
              \A name \in PlainMethods(cls) \cap DOMAIN vms[vm].classes[cls].PublicMethods :
                  vms[vm].classes[cls].PublicMethods[name].Argc
                      = Argc(MemberParams(cls, name) - 1)

\* C29: None is encoded as the NOTHIN value, and the NOTHIN value is decoded
\* to None, not to a GoValue object.
C29_NoneRoundTrips ==
    (cpc = "decoded" /\ cin = PyNone) =>
        /\ cenc = GoValueNothin
        /\ cdec = PyNone

\* the object handles of a value, with the place each one is at: "" for the
\* value itself, the index or the key for an element of a container
IsHandle(x) == x.k = "gov" /\ x.t \in Classes
HandlesAt(x) ==
    IF IsHandle(x) THEN {<<"", x>>}
    ELSE IF x.k \in {"list", "tuple", "slice", "dict", "map"}
              \/ (x.k = "gov" /\ x.t \in {"BUKKIT", "BASKIT"})
         THEN {<<i, x.v[i]>> : i \in {j \in DOMAIN x.v : IsHandle(x.v[j])}}
         ELSE {}
\* C21: an object handle passes through convert_to_go_value and through
\* convert_from_go_value unchanged, by itself, as an element of a sequence and
\* as a value of a mapping, and neither conversion changes object_instances.
HandlePassesThrough ==
    /\ (cpc = "picked" /\ cpc' = "encoded" /\ HandlesAt(cin) # {}) =>
            /\ HandlesAt(cenc') = HandlesAt(cin)
            /\ object_instances' = object_instances
    /\ (cpc = "encoded" /\ cpc' = "decoded" /\ HandlesAt(cenc) # {}) =>
            /\ HandlesAt(cdec') = HandlesAt(cenc)
            /\ object_instances' = object_instances
C21_HandlesPassThroughUnchanged == [][HandlePassesThrough]_vars
\* handles were passed both ways, inside containers, with instances registered
C21_Witness ==
    /\ cpc = "decoded"
    /\ DOMAIN object_instances # {}
    /\ cin.k = "dict"
    /\ HandlesAt(cin) # {}
    /\ HandlesAt(cenc) = HandlesAt(cin)
    /\ HandlesAt(cdec) = HandlesAt(cin)

\* x has the structure of y: the same nesting, sequences of the same length
\* in the same order, mappings with the same keys, equal primitives
RECURSIVE SameStructure(_, _)
SameStructure(x, y) ==
    CASE y.k \in {"list", "tuple"} ->
            /\ x.k \in {"list", "tuple"}
            /\ Len(x.v) = Len(y.v)
            /\ \A i \in DOMAIN y.v : SameStructure(x.v[i], y.v[i])
      [] y.k = "dict" ->
            /\ x.k = "dict"
            /\ DOMAIN x.v = DOMAIN y.v
            /\ \A key \in DOMAIN y.v : SameStructure(x.v[key], y.v[key])
      [] y.k = "none" -> x.k = "none"
      [] OTHER -> IsPrimitive(x) /\ PyEq(x, y)

\* C8: for every nested value v built from sequences and string-keyed
\* mappings of primitives, decode(encode(v)) has the structure of v.
C8_NestedRoundTrip ==
    (cpc = "decoded" /\ cin.k \in {"list", "tuple", "dict"}) => SameStructure(cdec, cin)

\* ------------------------------------------ properties of the Async Bridge
\* a wrapper was called from the VM's thread while the event loop runs
ForeignCall == acall.caller = "vm" /\ loop = "running"

\* C3: a wrapped coroutine function called from a thread other than the
\* scheduler's, while the scheduler runs, returns exactly the value the
\* coroutine produces for the arguments; and while the caller is blocked the
\* scheduler can run its other tasks.
C3_ForeignCallReturnsCoroutineValue ==
    /\ (ForeignCall /\ apc = "returned" /\ task = "finished" /\ acall.fn = "aadd") =>
          aret.out = Ok(PyInt(IntOf(acall.args[1]) + IntOf(acall.args[2])))
    /\ (ForeignCall /\ apc = "returned" /\ aret.out.ok) =>
          /\ task = "finished"
          /\ acall.fn = "aadd"
          /\ aret.out.val = PyInt(IntOf(acall.args[1]) + IntOf(acall.args[2]))
    /\ (ForeignCall /\ apc = "waiting" /\ ticks < MaxTicks) => ENABLED LoopTick

\* the call returned 5 for (2, 3), and the scheduler ran another task while
\* the caller was blocked
C3_Witness ==
    /\ ForeignCall
    /\ apc = "returned"
    /\ acall.args = <<PyInt(2), PyInt(3)>>
    /\ aret = [out |-> Ok(PyInt(5)), ticked |-> TRUE]

\* The synchronous functions with the bodies of the coroutine functions:
\*     def add(a, b): return a + b
\*     def raise_(a, b): raise ValueError("bad")
\* called with args
SyncOutcome(fn, args) ==
    IF Len(args) # AsyncParams(fn) THEN Raise("TypeError", "wrong number of arguments")
    ELSE CASE fn = "aadd" -> CallUser(St, "add", args).out
           [] fn = "araise" -> Raise("ValueError", "bad")
\* the payload gopy_wrapper makes of the outcome out of fn(*args)
PayloadOf(vm, out) == gopy_called(vm, [st |-> St, out |-> out]).out
\* the call made the coroutine and the coroutine ran to its end, or the call
\* itself raised
CoroutineOver == task = "finished" \/ Len(acall.args) # AsyncParams(acall.fn)

\* the payload of a dispatch that has returned is the payload a synchronous
\* function with the same outcome produces
PayloadIsRelayed ==
    (apc = "returned" /\ acall.fn \in AsyncFunctions /\ CoroutineOver) =>
        \A vm \in Facades :
            /\ PayloadOf(vm, aret.out) = PayloadOf(vm, SyncOutcome(acall.fn, acall.args))
            /\ (acall.fn = "araise" /\ task = "finished") =>
                    PayloadOf(vm, aret.out) = Returned(Payload(JNull, JStr("bad")))
            /\ (acall.fn = "aadd" /\ task = "finished") =>
                    PayloadOf(vm, aret.out) =
                        Returned(Payload(JInt(IntOf(acall.args[1]) + IntOf(acall.args[2])),
                                         JNull))
\* once the coroutine has returned or raised, the dispatch goes on to return
DispatchGoesOn ==
    (apc = "waiting" /\ acall.caller = "vm" /\ CoroutineOver) =>
        ENABLED (WorkerSubmit \/ WorkerResume \/ AsyncReturn)
\* C22: the outcome of a wrapped coroutine function is relayed: when the
\* coroutine has raised or returned, the dispatch returns, with the payload a
\* synchronous function with the same outcome produces: result null and the
\* exception's message as error, or the encoded result and error null.
C22_OutcomeIsRelayedVerbatim == PayloadIsRelayed /\ DispatchGoesOn

\* the coroutine of the call awaits what never happens
Hung == acall.fn = "ahang" /\ task = "suspended"
\* a step that leaves the coroutine's future pending leaves the worker
\* blocked and the caller waiting, with the call's future pending
NoRelease ==
    (apc = "waiting" /\ wpc = "blocked" /\ cfut'.state = "pending") =>
        /\ apc' = "waiting"
        /\ wpc' = "blocked"
        /\ fut' = Pending
        /\ acall' = acall
\* the coroutine's future is completed only by the running event loop, and
\* never for a coroutine that hangs
OnlyTheLoopCompletes ==
    (cfut.state = "pending" /\ cfut'.state # "pending") =>
        /\ loop = "running"
        /\ ~Hung
\* C23: the bridge has no deadline and no cancellation: while the coroutine
\* has not completed (it hangs, or the captured event loop is not running)
\* the worker stays blocked and the VM thread's call does not return, and no
\* step of the bridge releases either; a call whose coroutine hangs never
\* returns.
C23_HungCallNeverReturns ==
    /\ [][NoRelease /\ OnlyTheLoopCompletes]_vars
    /\ [](Hung => [](apc = "waiting" /\ wpc = "blocked"))
\* the coroutine hangs, the event loop has run its other tasks and has
\* stopped; worker and caller are blocked
C23_Witness ==
    /\ Hung
    /\ loop = "stopped"
    /\ ticks = MaxTicks
    /\ apc = "waiting"
    /\ wpc = "blocked"
    /\ fut = Pending

\* a wrapper was called on the event loop's thread (by VM code that a call,
\* call_method or execute made inside a coroutine runs) and its worker has
\* handed the coroutine to the event loop
SubmittedFromScheduler ==
    /\ hpc = "dispatched"
    /\ acall.caller = "scheduler"
    /\ apc = "waiting"
    /\ wpc = "blocked"
\* C26: a synchronous call made on the event loop's thread that dispatches
\* into a wrapped coroutine function never returns: the event loop's thread
\* waits for the call's future, the worker for the event loop to run the
\* coroutine, and no step is possible.
C26_SchedulerThreadCallDeadlocks ==
    SubmittedFromScheduler =>
        /\ fut = Pending
        /\ cfut = Pending
        /\ task = "scheduled"
        /\ ~ENABLED NextReentrant
\* the call was made while the event loop had run other tasks
C26_Witness ==
    /\ SubmittedFromScheduler
    /\ hlog.by = "caller"
    /\ acall.fn = "aadd"
    /\ loop = "running"
    /\ ticks > 0

\* a step of a thread that takes part in the call, or of the event loop on
\* the call's behalf
CallStep ==
    \/ HostWorkerEnter \/ ReentrantDispatch \/ WorkerSubmit \/ LoopRunTask
    \/ WorkerResume \/ AsyncReturn \/ ReentrantReturn \/ HostDeliver
\* C25: a call_async made by a coroutine of the event loop, whose VM
\* execution dispatches into a coroutine wrapper, resolves: the VM runs on
\* the call's worker thread, the event loop is free to run the wrapped
\* coroutine while the calling coroutine awaits, and until the caller has its
\* outcome some thread of the call can take its next step.
C25_AsyncReentrantCallResolves ==
    /\ hwpc \in {"invm", "dispatched"} => hlog.by = "worker"
    /\ (hwpc = "dispatched" /\ apc # "idle") => acall.caller = "vm"
    /\ (hpc = "awaiting" /\ task \in {"scheduled", "suspended"}) => ENABLED LoopRunTask
    /\ hpc = "awaiting" => ENABLED CallStep
\* the same without the wrapped coroutines that raise an exception which is
\* not an Exception
ResolvesUnlessBaseException ==
    (hcall.c.name # "aexit") => C25_AsyncReentrantCallResolves
\* a call_async is eventually over
EventuallyResumed == (hpc = "awaiting") ~> (hpc = "resumed")
EventuallyResumedUnlessBaseException ==
    (hpc = "awaiting" /\ hcall.c.name # "aexit") ~> (hpc = "resumed")

\* C27: every invocation of a coroutine wrapper and every call_async has
\* exactly one future and one worker thread of its own, which no other
\* invocation uses; a future is completed at most once; and with several
\* calls in flight every caller gets the outcome of its own call.
C27_EachCallHasItsOwnFutureAndWorker ==
    /\ \A f \in DOMAIN frames :
          /\ Cardinality({i \in DOMAIN futures : futures[i].owner = f}) = 1
          /\ Cardinality({w \in DOMAIN workers : workers[w].frame = f}) = 1
          /\ futures[frames[f].fut].owner = f
          /\ frames[f].pc = "returned" =>
                frames[f].out = Ok(PyInt(IntOf(frames[f].args[1]) + IntOf(frames[f].args[2])))
    /\ \A i \in DOMAIN futures : futures[i].sets <= 1
    /\ \A w \in DOMAIN workers :
          workers[w].pc = "done" => futures[frames[workers[w].frame].fut].sets = 1
\* a wrapper invocation and a call_async in flight together: the later one
\* has returned 5 for (2, 3) while the earlier one, made with (1, 1), waits
C27_Witness ==
    /\ Len(frames) = 2
    /\ frames[1].kind # frames[2].kind
    /\ frames[1].args = <<PyInt(1), PyInt(1)>>
    /\ frames[1].pc = "waiting"
    /\ workers[1].pc # "started"
    /\ frames[2].pc = "returned"
    /\ frames[2].out = Ok(PyInt(5))

\* a registration leaves every entry as it was, binds the name in the VM of
\* the facade it was made through, and leaves the other facade's VM alone
RegistrationKeepsOthers ==
    /\ \A i \in DOMAIN defined_functions :
          i \in DOMAIN defined_functions' /\ defined_functions'[i] = defined_functions[i]
    /\ last'.op = "define_function" =>
          \E e \in {defined_functions'[Len(defined_functions')]} :
              /\ Len(defined_functions') = Len(defined_functions) + 1
              /\ e.fn.name = last'.name
              /\ last'.args = <<PyStr(e.vm)>>
              /\ vms'[e.vm].functions[e.fn.name].id = Len(defined_functions')
              /\ \A v \in BothFacades \ {e.vm} : vms'[v] = vms[v]
\* a dispatch runs the function registered under the identifier and encodes
\* what it returns with the facade of the entry: the class of a returned
\* instance is defined in that facade's VM, and only there
DispatchUsesItsEntry ==
    last'.op = "dispatch" =>
        \E e \in {defined_functions[last'.disp.id]} :
            /\ last'.args = <<PyStr(e.vm)>>
            /\ e.fn.name = last'.name
            /\ \A v \in BothFacades \ {e.vm} : vms'[v] = vms[v]
            /\ e.fn.name = "add" =>
                  \E docs \in {JsonLoads(last'.disp.arg.doc).v} :
                      last'.disp.out =
                          Returned(Payload(JInt(IntOf(docs[1]) + IntOf(docs[2])), JNull))
            /\ e.fn.name = "new_adder" =>
                  /\ "Adder" \in DOMAIN vms'[e.vm].classes
                  /\ Len(vms'[e.vm].submitted) = Len(vms[e.vm].submitted) + 1
                  /\ last'.disp.out.payload.error = JNull
                  /\ last'.disp.out.payload.result.k = "jobj"
\* C28: with two facades registering functions in the shared Callable
\* Registry, also under the same name, a dispatch by identifier runs the
\* function registered under the identifier and encodes its result with the
\* facade that registered it; a registration through one facade changes
\* nothing an identifier of the other facade resolves to.
C28_FacadesShareTheRegistry == [][RegistrationKeepsOthers /\ DispatchUsesItsEntry]_vars
\* both facades have defined new_adder; the second facade's VM called it and
\* the class of the instance is defined in the second facade's VM only
C28_Witness ==
    /\ last.op = "dispatch"
    /\ last.name = "new_adder"
    /\ last.args = <<PyStr("vm2")>>
    /\ "new_adder" \in DOMAIN vms["vm1"].functions
    /\ vms["vm1"].functions["new_adder"].id # vms["vm2"].functions["new_adder"].id
    /\ "Adder" \in DOMAIN vms["vm2"].classes
    /\ "Adder" \notin DOMAIN vms["vm1"].classes

\* C4: whichever way the worker's operation fails (the coroutine raises, it
\* is cancelled, the submission fails), the failure is stored in the call's
\* future: a worker that has ended has left the future done, so the blocked
\* caller is released.
C4_WorkerFailureReachesCaller ==
    wpc \in {"done", "died"} => fut.state # "pending"

\* ------------------------------------- properties of host-originated calls
\* C11: an asynchronous host-to-VM call runs the VM operation on the worker
\* thread started for it, never on the scheduler's thread, which can run its
\* other tasks while the caller awaits; the future is resolved at most once,
\* a worker that has ended has resolved it with what the VM returned or
\* raised; and once the worker is started the future is eventually resolved.
C11_Resolved ==
    /\ hwpc = "invm" => hlog.by = "worker"
    /\ hlog.by \in {"", "worker", "caller"}
    /\ (hpc = "awaiting" /\ ticks < MaxTicks) => ENABLED LoopTick
    /\ hlog.sets <= 1
    /\ hwpc = "done" =>
          /\ hlog.sets = 1
          /\ hfut.state = "done"
          /\ hfut.out.ok = hlog.vm.ok
          /\ (hlog.vm.ok /\ hcall.c.op # "execute") =>
                hfut.out.val = convert_from_go_value(hlog.vm.val)
          /\ ~hlog.vm.ok => hfut.out = hlog.vm
C11_AsyncCallResolvesFuture ==
    /\ []C11_Resolved
    /\ (hwpc = "started") ~> (hfut.state # "pending")
    /\ (hpc = "awaiting") ~> (hpc = "resumed")

\* call_async("add", 2, 3) has resumed its caller with 5, which the worker
\* thread got from the VM
C11_Witness ==
    /\ hpc = "resumed"
    /\ hcall.c.op = "call"
    /\ hcall.c.args = <<PyInt(2), PyInt(3)>>
    /\ hlog = [by |-> "worker", vm |-> Ok(WrapInt(PyInt(5))), out |-> Ok(PyInt(5)), sets |-> 1]

\* C12: when the VM reports a failure of call, call_method or execute, the
\* synchronous form raises it to its caller and the asynchronous form rejects
\* its future with it, the exception and its message being the ones the VM
\* reported; the call does not complete as a success.
C12_VMFailureReachesHost ==
    (hpc = "resumed" /\ ~hlog.vm.ok) =>
        /\ ~hlog.out.ok
        /\ hlog.out.exc = hlog.vm.exc
        /\ hlog.out.msg = hlog.vm.msg
        /\ hlog.by = "worker" => hfut = Resolved(hlog.vm)

\* execute_async of a text the VM cannot parse has rejected the future, and
\* the awaiting caller got the VM's error
C12_Witness ==
    /\ hpc = "resumed"
    /\ hcall.c.op = "execute"
    /\ hlog.by = "worker"
    /\ hlog.vm = Raise("VMError", "parse error")
    /\ hlog.out = Raise("VMError", "parse error")
    /\ hfut.state = "done"

====
